---- MODULE Spec2Model ----
(***************************************************************************)
(* Model of the Cloudflare KV -> DynamoDB sync Lambda.                     *)
(*                                                                         *)
(*   SpecCB    : cloudflare_client.CircuitBreaker driven by arbitrary      *)
(*               calls of a wrapped function and by the passing of time.   *)
(*   SpecBatch : dynamodb_client.DynamoDBClient.batch_write_records on     *)
(*               lists of any length against arbitrary store responses.    *)
(*   Spec      : lambda_function.lambda_handler, invocation after          *)
(*               invocation in one process.                                *)
(***************************************************************************)
EXTENDS Integers, Sequences, FiniteSets, TLC

(***************************************************************************)
(* Bounds of the environment.                                              *)
(***************************************************************************)
\* SpecCB: the environment stops advancing the clock at MaxClock seconds.
MaxClock == 121
\* Largest RETRY_MAX_ATTEMPTS value the environment configures.
MaxRetryCfg == 2
\* SpecBatch: longest list handed to batch_write_records, and the number of
\* calls made on one client instance.
MaxRecords == 30
MaxBatchCalls == 2
\* SpecBatch: largest max_retries argument the client is constructed with.
MaxBatchRetries == 1
\* Spec: number of invocations the environment makes in one process.
MaxInvocations == 2
\* SpecDelay: number of successive attempts whose delay is computed.
MaxDelayAttempts == 7

\* SpecPool: number of get_* calls made on the connection pool.
MaxPoolCalls == 4

(***************************************************************************)
(* Program constants.                                                      *)
(***************************************************************************)
\* CircuitBreaker.__init__ defaults; CloudflareClient builds it with them.
failure_threshold == 5
recovery_timeout == 60
\* _on_success: "Reset after 3 successful operations".
HalfOpenSuccesses == 3
\* last_failure_time = None
None == -1

\* DynamoDBClient class attributes.
MAX_BATCH_SIZE == 25
DEFAULT_MAX_RETRIES == 3

\* optimize_lambda_execution: TimeoutManager(lambda_context, buffer_seconds=30.0).
buffer_seconds == 30
\* ConnectionPool.get_cloudflare_client: RetryConfig(base_delay=1.0, max_delay=60.0, jitter=True).
base_delay == 1
max_delay == 60
\* _load_environment_variables: default of API_TIMEOUT_SECONDS.
api_timeout_default == 30
\* retry_delay = e.retry_after or 60; int(response.headers.get('Retry-After', 60)).
default_retry_after == 60

\* Amounts by which the environment lets time pass between two steps.
TickSteps == {1000, (recovery_timeout - 1) * 1000}

VARIABLES
    cb,         \* CircuitBreaker: state, failure_count, success_count, last_failure_time
    now,        \* time.time(), in milliseconds
    cbpc,       \* position inside CircuitBreaker.call: "idle" | "running"
    cbLast,     \* how the latest call went: "none" | "rejected" | "admitted" | "ok" | "failed"
    consec,     \* observer: failed calls since the latest successful call
    hoSucc,     \* observer: successful calls since the breaker last became HALF_OPEN
    dyn,        \* DynamoDBClient: max_retries and the running total_* statistics
    bpc,        \* position inside batch_write_records: "idle" | "loop" | "returned"
    bw,         \* locals of batch_write_records
    ch,         \* locals of _write_batch_with_retry for the current batch
    bres,       \* BatchWriteResult returned by the latest batch_write_records
    writeCalls, \* observer: the batch_write_item calls of the current call (items, outcome)
    bcalls,     \* observer: number of batch_write_records calls made so far
    pc,         \* position of lambda_handler
    key,        \* key_name taken from the event
    config,     \* the dictionary returned by load_config
    remaining,  \* latest value of context.get_remaining_time_in_millis()
    pool,       \* ConnectionPool: which of the four cached instances exist
    cf,         \* CloudflareClient held by the pool: retry_config.max_attempts, timeout
    up,         \* locals of _execute_with_retries, with what it did so far
    stats,      \* ErrorHandler.statistics
    result,     \* what lambda_handler returns
    obs,        \* observer: what the current invocation has done
    tr,         \* locals of step 6: key, value, the DynamoDBRecord, how validate_record went
    cp,         \* ConnectionPool with its cached instances, their parameters and identities
    rsp,        \* an HTTP response handed to _handle_response, and what came of it
    ov,         \* two invocations overlapping in one process: the shared pool, each one's locals
    invocations \* observer: number of invocations started

cbVars == <<cb, now, cbpc, cbLast, consec, hoSucc>>
bwVars == <<dyn, bpc, bw, ch, bres, writeCalls, bcalls>>
hVars == <<pc, key, config, remaining, pool, cf, up, stats, result, obs, tr, cp, rsp, ov, invocations>>

vars == <<cb, now, cbpc, cbLast, consec, hoSucc,
          dyn, bpc, bw, ch, bres, writeCalls, bcalls,
          pc, key, config, remaining, pool, cf, up, stats, result, obs, tr, cp, rsp, ov, invocations>>

(***************************************************************************)
(* cloudflare_client.CircuitBreaker                                        *)
(***************************************************************************)
CircuitBreakerInit ==
    [state |-> "closed", failure_count |-> 0, success_count |-> 0,
     last_failure_time |-> None]

ShouldAttemptReset(c, t) ==
    IF c.last_failure_time = None
    THEN TRUE
    ELSE t - c.last_failure_time >= recovery_timeout * 1000

\* Variant of OnSuccess that forgets the reset of failure_count while CLOSED.
OnSuccess_NoReset(c) ==
    IF c.state = "half_open"
    THEN IF c.success_count + 1 >= HalfOpenSuccesses
         THEN [c EXCEPT !.state = "closed", !.failure_count = 0, !.success_count = 0]
         ELSE [c EXCEPT !.success_count = c.success_count + 1]
    ELSE c

OnSuccess(c) ==
    IF c.state = "half_open"
    THEN IF c.success_count + 1 >= HalfOpenSuccesses
         THEN [c EXCEPT !.state = "closed", !.failure_count = 0, !.success_count = 0]
         ELSE [c EXCEPT !.success_count = c.success_count + 1]
    ELSE [c EXCEPT !.failure_count = 0]

\* Variant of OnFailure that forgets the reset of success_count.
OnFailure_KeepsSuccessCount(c, t) ==
    LET c1 == [c EXCEPT !.failure_count = c.failure_count + 1,
                        !.last_failure_time = t]
    IN  IF c1.failure_count >= failure_threshold
        THEN [c1 EXCEPT !.state = "open"]
        ELSE c1

OnFailure(c, t) ==
    LET c1 == [c EXCEPT !.failure_count = c.failure_count + 1,
                        !.last_failure_time = t,
                        !.success_count = 0]
    IN  IF c1.failure_count >= failure_threshold
        THEN [c1 EXCEPT !.state = "open"]
        ELSE c1

\* The head of CircuitBreaker.call: TRUE when the call is rejected.
CallRejected(c, t) == c.state = "open" /\ ~ShouldAttemptReset(c, t)

\* A probe that starts from a cleared failure count.
CallAdmitted_ClearsCount(c, t) ==
    IF c.state = "open" /\ ShouldAttemptReset(c, t)
    THEN [c EXCEPT !.state = "half_open", !.failure_count = 0]
    ELSE c

\* The breaker as the wrapped function sees it once the call is let through.
CallAdmitted(c, t) ==
    IF c.state = "open" /\ ShouldAttemptReset(c, t)
    THEN [c EXCEPT !.state = "half_open"]
    ELSE c

(***************************************************************************)
(* State of lambda_handler and of the objects it creates.                  *)
(***************************************************************************)
\* ExecutionStatistics(): every counter 0.
NewStatistics ==
    [cloudflare_api_calls |-> 0, dynamodb_writes |-> 0, records_processed |-> 0,
     records_stored |-> 0, records_failed |-> 0,
     configuration_errors |-> 0, authentication_errors |-> 0, api_errors |-> 0,
     storage_errors |-> 0, data_validation_errors |-> 0, network_errors |-> 0,
     unknown_errors |-> 0]

\* ConnectionPool.__init__: no cached instance.
EmptyPool ==
    [config_manager |-> FALSE, cloudflare_client |-> FALSE,
     dynamodb_client |-> FALSE, data_transformer |-> FALSE]

NoConfig == [retry_max_attempts |-> 0, api_timeout_seconds |-> 0]

\* No CloudflareClient has been built: its timeout and its RetryConfig.
NoClient ==
    [max_attempts |-> 0, timeout |-> 0, base_delay |-> 0, max_delay |-> 0, jitter |-> FALSE]

\* _execute_with_retries before its first attempt.
NoFetch ==
    [attempt |-> 0, outcomes |-> <<>>, sleeps |-> <<>>, headers |-> <<>>,
     draws |-> <<>>, started |-> 0, value |-> "none"]

(***************************************************************************)
(* data_transformer.DataTransformer                                        *)
(*                                                                         *)
(* A Python value is a record tagged with its type name.  The text of a    *)
(* str is a sequence of runs [s, n]: the piece s repeated n times.  All    *)
(* characters are ASCII, so len(x) and len(x.encode('utf-8')) agree.       *)
(***************************************************************************)
Text(s) == IF s = "" THEN <<>> ELSE <<[s |-> s, n |-> 1]>>

Repeat(s, n) == IF n = 0 THEN <<>> ELSE <<[s |-> s, n |-> n]>>

RECURSIVE TextLen(_)
TextLen(t) == IF t = <<>> THEN 0 ELSE Len(Head(t).s) * Head(t).n + TextLen(Tail(t))

NoneValue == [type |-> "NoneType"]

StrValue(t) == [type |-> "str", s |-> t]

IntValue(i) == [type |-> "int", i |-> i]

BoolValue(b) == [type |-> "bool", b |-> b]

ListValue(items) == [type |-> "list", items |-> items]

\* A dict with str keys, in insertion order.
DictValue(keys, values) == [type |-> "dict", keys |-> keys, values |-> values]

\* isinstance(x, str)
IsStr(x) == x.type = "str"

\* bool(x) for None and str
Truthy(x) == IsStr(x) /\ TextLen(x.s) > 0

\* json.dumps(value, default=str) with the default separators
RECURSIVE JsonDumps(_), JsonItems(_), JsonPairs(_, _)
JsonDumps(value) ==
    CASE value.type = "NoneType" -> Text("null")
      [] value.type = "str" -> Text("\"") \o value.s \o Text("\"")
      [] value.type = "int" -> Text(ToString(value.i))
      [] value.type = "bool" -> IF value.b THEN Text("true") ELSE Text("false")
      [] value.type = "list" -> Text("[") \o JsonItems(value.items) \o Text("]")
      [] value.type = "dict" ->
            Text("{") \o JsonPairs(value.keys, value.values) \o Text("}")

JsonItems(items) ==
    IF items = <<>> THEN <<>>
    ELSE JsonDumps(Head(items))
         \o (IF Len(items) > 1 THEN Text(", ") \o JsonItems(Tail(items)) ELSE <<>>)

JsonPairs(keys, values) ==
    IF keys = <<>> THEN <<>>
    ELSE Text("\"") \o Text(Head(keys)) \o Text("\": ") \o JsonDumps(Head(values))
         \o (IF Len(keys) > 1 THEN Text(", ") \o JsonPairs(Tail(keys), Tail(values))
             ELSE <<>>)

DATA_VERSION == StrValue(Text("1.0"))

SOURCE == StrValue(Text("cloudflare_kv"))

MAX_DYNAMODB_ITEM_SIZE == 400 * 1024

MaxPkBytes == 2048

MaxSkBytes == 1024

\* self.namespace_id, taken from the configuration
namespace_id == StrValue(Text("ns"))

\* A value conversion that serializes every value, None and str included.
ValueStr_DumpsEverything(value) == StrValue(JsonDumps(value))

\* Convert value to string for consistent storage.
ValueStr(value) ==
    CASE value.type = "NoneType" -> StrValue(Text(""))
      [] IsStr(value) -> value
      [] OTHER -> StrValue(JsonDumps(value))

\* transform_kv_record(key, value, CloudflareKey(name=key, expiration=None,
\* metadata={})) at the time whose isoformat() is iso_timestamp.
TransformKvRecord(k, value, iso_timestamp) ==
    LET value_str == ValueStr(value)
    IN  [type |-> "DynamoDBRecord",
         pk |-> StrValue(Text("cf_kv#") \o k.s),
         sk |-> iso_timestamp,
         key_name |-> k,
         value |-> value_str,
         metadata |-> [transformed_at |-> iso_timestamp,
                       original_type |-> StrValue(Text(value.type)),
                       value_length |-> TextLen(value_str.s)],
         retrieved_at |-> iso_timestamp,
         ttl |-> NoneValue,
         source |-> SOURCE,
         namespace_id |-> namespace_id,
         data_version |-> DATA_VERSION]

StringAttributes ==
    <<"pk", "sk", "key_name", "value", "retrieved_at", "source", "namespace_id",
      "data_version">>

\* _estimate_dict_size of the metadata transform_kv_record builds.
EstimateDictSize(data) ==
    Len("transformed_at") + TextLen(data.transformed_at.s)
    + Len("original_type") + TextLen(data.original_type.s)
    + Len("value_length") + 8

RECURSIVE StringAttributesSize(_, _)
StringAttributesSize(record, attrs) ==
    IF attrs = <<>> THEN 0
    ELSE (IF Truthy(record[Head(attrs)])
          THEN Len(Head(attrs)) + TextLen(record[Head(attrs)].s) ELSE 0)
         + StringAttributesSize(record, Tail(attrs))

EstimateItemSize(record) ==
    StringAttributesSize(record, StringAttributes)
    + (IF record.ttl # NoneValue THEN Len("ttl") + 8 ELSE 0)
    + Len("metadata") + EstimateDictSize(record.metadata)

\* _validate_dynamodb_constraints returns without raising.
ValidateDynamoDBConstraints(record) ==
    /\ ~(EstimateItemSize(record) > MAX_DYNAMODB_ITEM_SIZE)
    /\ ~(TextLen(record.pk.s) > MaxPkBytes)
    /\ ~(TextLen(record.sk.s) > MaxSkBytes)

\* validate_record returns True (FALSE: it raises DataValidationError).
ValidateRecord(record) ==
    /\ \A f \in {StringAttributes[i] : i \in DOMAIN StringAttributes} :
            record[f] # NoneValue
    /\ IsStr(record.pk) /\ Truthy(record.pk)
    /\ IsStr(record.sk) /\ Truthy(record.sk)
    /\ IsStr(record.key_name) /\ Truthy(record.key_name)
    /\ IsStr(record.value)
    /\ IsStr(record.source) /\ record.source = SOURCE
    /\ IsStr(record.namespace_id) /\ Truthy(record.namespace_id)
    /\ IsStr(record.data_version) /\ Truthy(record.data_version)
    /\ record.ttl = NoneValue \/ record.ttl.type = "int"
    /\ ValidateDynamoDBConstraints(record)

\* isoformat() of a time with microseconds.
IsoTimestamp == StrValue(Repeat("0", 32))

\* Step 6 has not run.
NoTransform ==
    [key |-> NoneValue, value |-> NoneValue, record |-> NoneValue, validated |-> "none"]

NoObs ==
    [skipped |-> "none", config_ok |-> FALSE, fetch_ok |-> FALSE,
     transform_ran |-> FALSE, transform_ok |-> FALSE, catch_all |-> FALSE,
     first_remaining |-> 0]

\* None, in a slot of the connection pool.
NoInstance == [id |-> 0]

\* No call of the connection pool yet.
NoCall == [kind |-> "none"]

PoolKinds == {"config_manager", "cloudflare_client", "dynamodb_client", "data_transformer"}

\* ConnectionPool.__init__.  built counts the instances constructed so far
\* (the n-th has identity n), closed holds the clients whose session.close()
\* was called, served the latest request and instance of each kind since the
\* latest cleanup, last the latest call.
NewConnectionPool ==
    [config_manager |-> NoInstance, cloudflare_client |-> NoInstance,
     dynamodb_client |-> NoInstance, data_transformer |-> NoInstance,
     usage_count |-> 0, built |-> 0, closed |-> {},
     served |-> [k \in PoolKinds |-> NoCall], last |-> NoCall]

\* No response has been handled.
NoResponse == [handled |-> FALSE]

\* No overlapping invocations.
NoOverlap == [started |-> FALSE]

\* No invocation has started.
HandlerIdle ==
    /\ pc = "idle"
    /\ key = ""
    /\ config = NoConfig
    /\ remaining = 0
    /\ pool = EmptyPool
    /\ cf = NoClient
    /\ up = NoFetch
    /\ stats = NewStatistics
    /\ result = [kind |-> "none"]
    /\ obs = NoObs
    /\ tr = NoTransform
    /\ cp = NewConnectionPool
    /\ rsp = NoResponse
    /\ ov = NoOverlap
    /\ invocations = 0

(***************************************************************************)
(* dynamodb_client.DynamoDBClient                                          *)
(***************************************************************************)
Min(a, b) == IF a <= b THEN a ELSE b

\* DynamoDBClient.__init__: max_retries or DEFAULT_MAX_RETRIES, statistics reset.
DynamoDBClientInit(max_retries) ==
    [max_retries |-> IF max_retries = 0 THEN DEFAULT_MAX_RETRIES ELSE max_retries,
     total_records_attempted |-> 0,
     total_records_successful |-> 0,
     total_records_failed |-> 0,
     total_write_operations |-> 0,
     total_retry_attempts |-> 0]

NoResult ==
    [successful_records |-> 0, failed_records |-> 0, unprocessed_items |-> <<>>,
     errors |-> 0, total_attempts |-> 0, returned |-> FALSE]

NoBatch ==
    [n |-> 0, items |-> <<>>, batches |-> <<>>, batch_num |-> 0, successful_records |-> 0,
     failed_records |-> 0, all_errors |-> 0, total_attempts |-> 0]

NoChunk == [unprocessed_items |-> <<>>, successful_records |-> 0, errors |-> 0, attempt |-> 0]

\* No batch_write_records call is in progress and none has returned yet.
BatchIdle ==
    /\ bpc = "idle"
    /\ bw = NoBatch
    /\ ch = NoChunk
    /\ bres = NoResult
    /\ writeCalls = <<>>
    /\ bcalls = 0

\* The records of a list of n records that _record_to_dynamodb_item accepts;
\* bad is the set of positions whose conversion raises (item over 400KB).
ConvertedItems(n, bad) == SelectSeq([i \in 1..n |-> i], LAMBDA i : i \notin bad)

\* A split whose slices run one item too far.
SplitBatches_Overlapping(items) ==
    LET nb == (Len(items) + MAX_BATCH_SIZE - 1) \div MAX_BATCH_SIZE
    IN  [b \in 1..nb |->
            SubSeq(items, (b - 1) * MAX_BATCH_SIZE + 1, Min(b * MAX_BATCH_SIZE + 1, Len(items)))]

\* batches = [items[i:i + MAX_BATCH_SIZE] for i in range(0, len(items), MAX_BATCH_SIZE)]
SplitBatches(items) ==
    LET nb == (Len(items) + MAX_BATCH_SIZE - 1) \div MAX_BATCH_SIZE
    IN  [b \in 1..nb |->
            SubSeq(items, (b - 1) * MAX_BATCH_SIZE + 1, Min(b * MAX_BATCH_SIZE, Len(items)))]

\* A resubmission of everything that was submitted.
LastItems_All(s, u) == s

\* The last u elements of s: the items a response reports as unprocessed.
LastItems(s, u) == SubSeq(s, Len(s) - u + 1, Len(s))

\* Numbers of unprocessed items the store answers with for k submitted items.
UnprocessedCounts(k) == {0, 1, k}

\* Positions whose conversion fails, for a list of n records.
BadSets(n) == {{}, {1}, 1..n}

\* _write_batch_with_retry, first lines: locals of a fresh batch.
ChunkStart(items) ==
    [unprocessed_items |-> items, successful_records |-> 0, errors |-> 0, attempt |-> 0]

\* BatchWriteResult built at the end of _write_batch_with_retry.
ChunkResult(c) ==
    [successful_records |-> c.successful_records,
     failed_records |-> Len(c.unprocessed_items),
     unprocessed_items |-> c.unprocessed_items,
     errors |-> c.errors,
     total_attempts |-> c.attempt]

\* batch_write_records, body of "for batch_num, batch_items" after the batch
\* returned r.
AfterBatchReturned(b, r) ==
    [b EXCEPT !.successful_records = b.successful_records + r.successful_records,
              !.failed_records = b.failed_records + r.failed_records
                                 + (IF r.unprocessed_items # <<>>
                                    THEN Len(r.unprocessed_items) ELSE 0),
              !.all_errors = b.all_errors + r.errors,
              !.total_attempts = b.total_attempts + r.total_attempts]

\* batch_write_records, "except DynamoDBError" of the loop over the batches.
AfterBatchRaised(b) ==
    [b EXCEPT !.failed_records = b.failed_records + Len(b.batches[b.batch_num]),
              !.all_errors = b.all_errors + 1]

\* batch_write_records after the loop: statistics, accuracy check and result.
FinishedResult(b) ==
    [successful_records |-> b.successful_records,
     failed_records |-> b.failed_records,
     unprocessed_items |-> <<>>,
     errors |-> b.all_errors
                + (IF b.successful_records + b.failed_records # b.n THEN 1 ELSE 0),
     total_attempts |-> b.total_attempts,
     returned |-> TRUE]

FinishedStats(d, b) ==
    [d EXCEPT !.total_records_successful = d.total_records_successful + b.successful_records,
              !.total_records_failed = d.total_records_failed + b.failed_records,
              !.total_write_operations = d.total_write_operations + Len(b.batches)]

\* Go on with the next batch, or leave the loop and return.
\* b: locals after the accounting of the current batch; d: the client.
NextBatchOrReturn(b, d) ==
    IF b.batch_num < Len(b.batches)
    THEN /\ bw' = [b EXCEPT !.batch_num = b.batch_num + 1]
         /\ ch' = ChunkStart(b.batches[b.batch_num + 1])
         /\ bpc' = "loop"
         /\ dyn' = d
         /\ bres' = bres
    ELSE /\ bw' = b
         /\ ch' = NoChunk
         /\ bpc' = "returned"
         /\ dyn' = FinishedStats(d, b)
         /\ bres' = FinishedResult(b)

\* An early return that books the call as a write operation.
ReturnEmpty_CountsOperation ==
    /\ bres' = [NoResult EXCEPT !.returned = TRUE]
    /\ bw' = NoBatch
    /\ ch' = NoChunk
    /\ bpc' = "returned"
    /\ dyn' = [dyn EXCEPT !.total_write_operations = @ + 1]

\* batch_write_records([]): "if not records: return BatchWriteResult(0, 0, ...)".
ReturnEmpty ==
    /\ bres' = [NoResult EXCEPT !.returned = TRUE]
    /\ bw' = NoBatch
    /\ ch' = NoChunk
    /\ bpc' = "returned"
    /\ dyn' = dyn

\* batch_write_records(records) with len(records) = n, up to the first
\* physical write.
BatchWriteStart(n, bad) ==
    LET items == ConvertedItems(n, bad)
        conversion_errors == n - Len(items)
    IN  /\ writeCalls' = <<>>
        /\ bcalls' = bcalls + 1
        /\ IF n = 0
           THEN ReturnEmpty
           ELSE IF items = <<>>
           THEN /\ bres' = [NoResult EXCEPT !.failed_records = n,
                                            !.errors = conversion_errors,
                                            !.returned = TRUE]
                /\ bw' = [NoBatch EXCEPT !.n = n]
                /\ ch' = NoChunk
                /\ bpc' = "returned"
                /\ dyn' = [dyn EXCEPT !.total_records_attempted = @ + n,
                                      !.total_records_failed = @ + n]
           ELSE /\ bres' = NoResult
                /\ bw' = [n |-> n, items |-> items,
                          batches |-> SplitBatches(items), batch_num |-> 1,
                          successful_records |-> 0,
                          failed_records |-> n - Len(items),
                          all_errors |-> conversion_errors,
                          total_attempts |-> 0]
                /\ ch' = ChunkStart(SplitBatches(items)[1])
                /\ bpc' = "loop"
                /\ dyn' = [dyn EXCEPT !.total_records_attempted = @ + n]

\* Observer: one batch_write_item call of _write_batch_with_retry.  batch is
\* the number of the batch, items what was submitted, outcome how the store
\* answered, unprocessed how many items it left, ended how the pass leaves
\* _write_batch_with_retry ("continue": next pass, "returned", "raised") and
\* failed the failed_records of the BatchWriteResult it returns.
Call(outcome, unprocessed, ended, failed) ==
    [batch |-> bw.batch_num, items |-> ch.unprocessed_items, outcome |-> outcome,
     unprocessed |-> unprocessed, ended |-> ended, failed |-> failed]

\* The loop condition of _write_batch_with_retry.
LoopContinues == ch.unprocessed_items # <<>> /\ ch.attempt <= dyn.max_retries

\* The client after "attempt += 1; total_retry_attempts += 1 if attempt > 1 else 0".
CountRetry(d, attempt) ==
    [d EXCEPT !.total_retry_attempts = @ + (IF attempt > 1 THEN 1 ELSE 0)]

\* One pass of the loop: batch_write_item answers, u of the items unprocessed.
WriteResponse(u) ==
    /\ bpc = "loop"
    /\ LoopContinues
    /\ u \in UnprocessedCounts(Len(ch.unprocessed_items))
    /\ LET attempt == ch.attempt + 1
           d == CountRetry(dyn, attempt)
           left == LastItems(ch.unprocessed_items, u)
           c == [ch EXCEPT !.attempt = attempt,
                           !.unprocessed_items = left,
                           !.successful_records = @ + (Len(ch.unprocessed_items) - u)]
       IN  /\ writeCalls' = Append(writeCalls,
                  Call("response", u,
                       IF u > 0 /\ attempt <= dyn.max_retries THEN "continue"
                       ELSE "returned",
                       IF u > 0 /\ attempt <= dyn.max_retries THEN 0
                       ELSE ChunkResult(c).failed_records))
           /\ bcalls' = bcalls
           /\ IF u > 0 /\ attempt <= dyn.max_retries
              THEN \* sleep, then resubmit the unprocessed items
                   /\ ch' = c
                   /\ dyn' = d
                   /\ UNCHANGED <<bpc, bw, bres>>
              ELSE \* break (all processed, or max retries exceeded)
                   LET c2 == IF u > 0 THEN [c EXCEPT !.errors = @ + 1] ELSE c
                   IN  NextBatchOrReturn(AfterBatchReturned(bw, ChunkResult(c2)), d)

\* A pass that gives up at the first retryable ClientError.
WriteRetryableError_GivesUp ==
    /\ bpc = "loop"
    /\ LoopContinues
    /\ LET attempt == ch.attempt + 1
           d == CountRetry(dyn, attempt)
       IN  /\ writeCalls' = Append(writeCalls,
                  Call("retryable", Len(ch.unprocessed_items), "raised", 0))
           /\ bcalls' = bcalls
           /\ NextBatchOrReturn(AfterBatchRaised(bw), d)

\* One pass of the loop: batch_write_item raises a ClientError whose code is
\* in RETRYABLE_ERRORS.
WriteRetryableError ==
    /\ bpc = "loop"
    /\ LoopContinues
    /\ LET attempt == ch.attempt + 1
           d == CountRetry(dyn, attempt)
       IN  /\ writeCalls' = Append(writeCalls,
                  Call("retryable", Len(ch.unprocessed_items),
                       IF attempt <= dyn.max_retries THEN "continue" ELSE "raised", 0))
           /\ bcalls' = bcalls
           /\ IF attempt <= dyn.max_retries
              THEN /\ ch' = [ch EXCEPT !.attempt = attempt]
                   /\ dyn' = d
                   /\ UNCHANGED <<bpc, bw, bres>>
              ELSE NextBatchOrReturn(AfterBatchRaised(bw), d)

\* One pass of the loop: batch_write_item raises a ClientError with another
\* code, or anything that is not a ClientError.
WriteFatalError ==
    /\ bpc = "loop"
    /\ LoopContinues
    /\ LET attempt == ch.attempt + 1
           d == CountRetry(dyn, attempt)
       IN  /\ writeCalls' = Append(writeCalls,
                  Call("fatal", Len(ch.unprocessed_items), "raised", 0))
           /\ bcalls' = bcalls
           /\ NextBatchOrReturn(AfterBatchRaised(bw), d)

(***************************************************************************)
(* SpecBatch: one store client, a caller that submits lists.               *)
(***************************************************************************)
RecordCounts == {0, 1, MaxRecords}

BatchInit ==
    /\ cb = CircuitBreakerInit
    /\ now = 0
    /\ cbpc = "idle"
    /\ cbLast = "none"
    /\ consec = 0
    /\ hoSucc = 0
    /\ \E m \in 1..MaxBatchRetries : dyn = DynamoDBClientInit(m)
    /\ BatchIdle
    /\ HandlerIdle

\* The caller invokes batch_write_records.
BatchSubmit ==
    /\ bpc \in {"idle", "returned"}
    /\ bcalls < MaxBatchCalls
    /\ \E n \in RecordCounts : \E bad \in BadSets(n) : BatchWriteStart(n, bad)
    /\ UNCHANGED cbVars
    /\ UNCHANGED hVars

BatchNext ==
    \/ BatchSubmit
    \/ (\E u \in 0..MAX_BATCH_SIZE : WriteResponse(u)) /\ UNCHANGED <<cbVars, hVars>>
    \/ WriteRetryableError /\ UNCHANGED <<cbVars, hVars>>
    \/ WriteFatalError /\ UNCHANGED <<cbVars, hVars>>

SpecBatch == BatchInit /\ [][BatchNext]_vars

\* C3: whatever the list and whatever the store answers, the result returned
\* by batch_write_records has successful_records + failed_records equal to the
\* number of records submitted.
C3_ResultAccountsForEveryRecord ==
    bres.returned => bres.successful_records + bres.failed_records = bw.n

(***************************************************************************)
(* SpecCB: one breaker, one caller.                                        *)
(***************************************************************************)
CBInit ==
    /\ cb = CircuitBreakerInit
    /\ now = 0
    /\ cbpc = "idle"
    /\ cbLast = "none"
    /\ consec = 0
    /\ hoSucc = 0
    /\ dyn = DynamoDBClientInit(DEFAULT_MAX_RETRIES)
    /\ BatchIdle
    /\ HandlerIdle

\* Variant of CBCallReject that records the rejection as one more failure.
CBCallReject_CountsFailure ==
    /\ cbpc = "idle"
    /\ CallRejected(cb, now)
    /\ cb' = OnFailure(cb, now)
    /\ cbLast' = "rejected"
    /\ UNCHANGED <<now, cbpc, consec, hoSucc>>
    /\ UNCHANGED bwVars
    /\ UNCHANGED hVars

\* CircuitBreaker.call, lines 127-132, when the circuit is open and stays so.
CBCallReject ==
    /\ cbpc = "idle"
    /\ CallRejected(cb, now)
    /\ cbLast' = "rejected"
    /\ UNCHANGED <<cb, now, cbpc, consec, hoSucc>>
    /\ UNCHANGED bwVars
    /\ UNCHANGED hVars

\* CircuitBreaker.call, lines 127-135: the wrapped function is entered.
CBCallAdmit ==
    /\ cbpc = "idle"
    /\ ~CallRejected(cb, now)
    /\ cb' = CallAdmitted(cb, now)
    /\ cbpc' = "running"
    /\ cbLast' = "admitted"
    /\ hoSucc' = IF cb.state = "open" THEN 0 ELSE hoSucc
    /\ UNCHANGED <<now, consec>>
    /\ UNCHANGED bwVars
    /\ UNCHANGED hVars

\* CircuitBreaker.call, lines 135-137: the wrapped function returned.
CBCallSucceed ==
    /\ cbpc = "running"
    /\ cb' = OnSuccess(cb)
    /\ cbpc' = "idle"
    /\ cbLast' = "ok"
    /\ consec' = 0
    /\ hoSucc' = IF cb.state = "half_open" /\ hoSucc < HalfOpenSuccesses
                 THEN hoSucc + 1 ELSE hoSucc
    /\ UNCHANGED now
    /\ UNCHANGED bwVars
    /\ UNCHANGED hVars

\* CircuitBreaker.call, lines 138-140: the wrapped function raised.
CBCallFail ==
    /\ cbpc = "running"
    /\ cb' = OnFailure(cb, now)
    /\ cbpc' = "idle"
    /\ cbLast' = "failed"
    /\ consec' = IF consec < failure_threshold THEN consec + 1 ELSE consec
    /\ hoSucc' = 0
    /\ UNCHANGED now
    /\ UNCHANGED bwVars
    /\ UNCHANGED hVars

\* Time passes (between calls or while the wrapped function runs).
Tick ==
    /\ \E d \in TickSteps :
        /\ now + d <= MaxClock * 1000
        /\ now' = now + d
    /\ UNCHANGED <<cb, cbpc, cbLast, consec, hoSucc>>
    /\ UNCHANGED bwVars
    /\ UNCHANGED hVars

CBNext ==
    \/ CBCallReject
    \/ CBCallAdmit
    \/ CBCallSucceed
    \/ CBCallFail
    \/ Tick

SpecCB == CBInit /\ [][CBNext]_vars

(***************************************************************************)
(* Properties of the circuit breaker (checked under SpecCB).               *)
(***************************************************************************)
\* A call of the wrapped function ends in this step.
CallEnds == cbpc = "running" /\ cbpc' = "idle"

\* C7: starting from CLOSED the breaker opens on exactly the
\* failure_threshold-th consecutive failed call and never earlier, and a
\* successful call while CLOSED resets the consecutive-failure count to zero,
\* so that failures separated by a success do not add up.
C7_OpensAtThreshold ==
    [][(cb.state = "closed" /\ CallEnds) =>
          /\ consec < failure_threshold
          /\ (cbLast' = "failed" =>
                 /\ cb'.state = (IF consec' = failure_threshold THEN "open" ELSE "closed")
                 /\ cb'.failure_count = consec')
          /\ (cbLast' = "ok" =>
                 /\ cb'.state = "closed"
                 /\ cb'.failure_count = 0)]_vars

\* The breaker has just opened from CLOSED on the failure_threshold-th
\* consecutive failure.
C7_Witness ==
    /\ cb.state = "open"
    /\ cbLast = "failed"
    /\ consec = failure_threshold
    /\ cb.failure_count = failure_threshold

\* C8: while OPEN with fewer than recovery_timeout seconds since the last
\* recorded failure, a call is rejected without entering the wrapped function
\* and leaves state, failure_count, success_count and last_failure_time as
\* they were.
C8_OpenRejects ==
    [][(/\ cb.state = "open"
        /\ cbpc = "idle"
        /\ now - cb.last_failure_time < recovery_timeout * 1000
        /\ now' = now) =>
          /\ cbLast' = "rejected"
          /\ cbpc' = "idle"
          /\ cb' = cb]_vars

\* A call was rejected and the breaker is one second short of recovery.
C8_Witness ==
    /\ cb.state = "open"
    /\ cbLast = "rejected"
    /\ now - cb.last_failure_time = (recovery_timeout - 1) * 1000

\* C9: once recovery_timeout has elapsed in OPEN the next call is let through
\* with the breaker HALF_OPEN; the breaker returns to CLOSED only on the third
\* consecutive successful call in HALF_OPEN (fewer leave it HALF_OPEN), and a
\* single failed call while HALF_OPEN puts it back to OPEN.
C9_HalfOpenRecovery ==
    [][/\ (/\ cb.state = "open"
            /\ cbpc = "idle"
            /\ now - cb.last_failure_time >= recovery_timeout * 1000
            /\ now' = now) =>
              (cbpc' = "running" /\ cb'.state = "half_open")
       /\ (cb.state = "half_open" /\ CallEnds /\ cbLast' = "ok") =>
              cb'.state = (IF hoSucc' = HalfOpenSuccesses THEN "closed" ELSE "half_open")
       /\ (cb.state = "half_open" /\ CallEnds /\ cbLast' = "failed") =>
              cb'.state = "open"]_vars

\* The breaker is CLOSED again after three successes in a row in HALF_OPEN.
C9_Witness ==
    /\ cb.state = "closed"
    /\ cbLast = "ok"
    /\ hoSucc = HalfOpenSuccesses

\* C40: in every state the breaker reaches, CLOSED goes with failure_count
\* below the threshold, OPEN and HALF_OPEN with failure_count at or above it;
\* success_count is 0 outside HALF_OPEN and always less than 3.
C40_BreakerStateMatchesCounters ==
    /\ cb.state = "closed" => cb.failure_count < failure_threshold
    /\ cb.state \in {"open", "half_open"} => cb.failure_count >= failure_threshold
    /\ cb.state # "half_open" => cb.success_count = 0
    /\ cb.success_count < HalfOpenSuccesses

\* A probing breaker one success short of closing.
C40_Witness ==
    /\ cb.state = "half_open"
    /\ cb.success_count = HalfOpenSuccesses - 1
    /\ cb.failure_count >= failure_threshold
    /\ cbpc = "idle"

(***************************************************************************)
(* lambda_function.lambda_handler                                          *)
(***************************************************************************)
\* Values context.get_remaining_time_in_millis() returns; a context without
\* that function answers 0 every time (LambdaContext.from_lambda_context).
RemainingValues == {-1000, 0, 25000, 30000, 30001, 300000}

\* Later readings of the remaining time are never larger than earlier ones.
NextRemaining(r) == {x \in RemainingValues : x <= r}

\* A check that compares the remaining time with zero instead of the buffer.
CheckTimeout_IgnoresBuffer(r) == r <= 0

\* TimeoutManager.check_timeout: remaining_time_in_millis() / 1000.0 <= buffer_seconds.
CheckTimeout(r) == r <= buffer_seconds * 1000

\* Values of the Retry-After header of a 429 response, in seconds; None: no header.
RetryAfterHeaders == {None, 0, 30}

\* Values of random.random(), in thousandths.
RandomValues == {0, 500}

\* What the value endpoint delivers for the key.
ValueKinds == {"small", "oversize"}

\* key_name values of the event.
KeyNames == {"", "k"}

RECURSIVE Pow2(_)
Pow2(n) == IF n <= 0 THEN 1 ELSE 2 * Pow2(n - 1)

\* A delay that takes the jitter off instead of adding it.
RetryDelay_SubtractsJitter(rc, attempt, rnd) ==
    LET delay == Min(rc.base_delay * 1000 * Pow2(attempt), rc.max_delay * 1000)
    IN  IF rc.jitter THEN delay - (delay * rnd) \div 4000 ELSE delay

\* CloudflareClient._calculate_retry_delay for the RetryConfig rc, in
\* milliseconds; rnd is the value of random.random() in thousandths, so that
\* the jitter delay * 0.25 * random.random() is delay * rnd / 4000.
RetryDelay(rc, attempt, rnd) ==
    LET delay == Min(rc.base_delay * 1000 * Pow2(attempt), rc.max_delay * 1000)
    IN  IF rc.jitter THEN delay + (delay * rnd) \div 4000 ELSE delay

\* self._calculate_retry_delay(attempt) of the handler's client.
CalculateRetryDelay(attempt, rnd) == RetryDelay(cf, attempt, rnd)

\* The wait before the retry of a rate-limited request, in milliseconds.
RateLimitDelay(header) ==
    LET retry_after == IF header = None THEN default_retry_after ELSE header
    IN  (IF retry_after = 0 THEN default_retry_after ELSE retry_after) * 1000

\* ExecutionStatistics.get_success_rate, in ten-thousandths.
SuccessRate(st) ==
    IF st.records_processed = 0
    THEN 0
    ELSE (st.records_stored * 10000) \div st.records_processed

\* ExecutionStatistics.to_dict
ToDict(st) ==
    [cloudflare_api_calls |-> st.cloudflare_api_calls,
     dynamodb_writes |-> st.dynamodb_writes,
     records_processed |-> st.records_processed,
     records_stored |-> st.records_stored,
     records_failed |-> st.records_failed,
     success_rate |-> SuccessRate(st),
     total_errors |-> st.configuration_errors + st.authentication_errors
                      + st.api_errors + st.storage_errors
                      + st.data_validation_errors + st.network_errors
                      + st.unknown_errors]

\* ErrorHandler.create_error_response.  details is error_info['message'], the
\* text of the exception: it is represented by the number of the upstream
\* request whose response raised that exception, 0 for an exception (or a
\* literal message) that comes from no upstream response.
ErrorResponse(category, is_retryable, st) ==
    [kind |-> "response", success |-> FALSE,
     error |-> [category |-> category, is_retryable |-> is_retryable, details |-> 0],
     statistics |-> ToDict(st)]

\* ErrorHandler.create_success_response
SuccessResponse(data, st) ==
    [kind |-> "response", success |-> TRUE, data |-> data, statistics |-> ToDict(st)]

\* ErrorHandler._handle_categorized_error: statistics.increment_error_count.
IncrementErrorCount(st, category) ==
    CASE category = "configuration" -> [st EXCEPT !.configuration_errors = @ + 1]
      [] category = "authentication" -> [st EXCEPT !.authentication_errors = @ + 1]
      [] category = "api" -> [st EXCEPT !.api_errors = @ + 1]
      [] category = "storage" -> [st EXCEPT !.storage_errors = @ + 1]
      [] OTHER -> [st EXCEPT !.unknown_errors = @ + 1]

\* A top-level handler that lets the exception go to the caller.
CatchAll_Reraises(st) == [kind |-> "raised"]

\* lambda_handler, "except Exception" at the top level.
CatchAll(st) == ErrorResponse("unknown", FALSE, st)

\* The handler has its return value; only the finally block is left.
Return(res, st, o) ==
    /\ result' = res
    /\ stats' = st
    /\ obs' = o
    /\ pc' = "finally"

\* An exception reached the top-level handler.
ReturnUnexpected ==
    Return(CatchAll(stats), stats, [obs EXCEPT !.catch_all = TRUE])

\* The statistics and the response for an error of the given category that
\* the response of request number origin raised (handle_*_error, then
\* create_error_response).
ReturnHandledFrom(category, is_retryable, origin) ==
    LET st == IncrementErrorCount(stats, category)
    IN  Return([ErrorResponse(category, is_retryable, st) EXCEPT !.error.details = origin],
               st, obs)

\* The same for an error that no upstream response raised.
ReturnHandled(category, is_retryable) == ReturnHandledFrom(category, is_retryable, 0)

\* Start of an invocation up to the first stage: a well-formed event and a
\* context whose clock works.
InvokeOk ==
    /\ pc = "idle"
    /\ invocations < MaxInvocations
    /\ invocations' = invocations + 1
    /\ cp' = cp
    /\ rsp' = rsp
    /\ ov' = ov
    /\ tr' = NoTransform
    /\ \E k \in KeyNames : key' = k
    /\ \E r \in RemainingValues :
        /\ remaining' = r
        /\ obs' = [NoObs EXCEPT !.first_remaining = r]
    /\ stats' = NewStatistics
    /\ result' = [kind |-> "none"]
    /\ up' = NoFetch
    /\ writeCalls' = <<>>
    /\ bcalls' = 0
    /\ pc' = "s1"
    /\ UNCHANGED <<config, pool, cf, cbVars, dyn, bpc, bw, ch, bres>>

\* Start of an invocation that fails before the first stage: the context's
\* get_remaining_time_in_millis does not return a number (TimeoutManager
\* raises), or the event has no get method.
InvokeUnexpected ==
    /\ pc = "idle"
    /\ invocations < MaxInvocations
    /\ invocations' = invocations + 1
    /\ cp' = cp
    /\ rsp' = rsp
    /\ ov' = ov
    /\ tr' = NoTransform
    /\ key' = ""
    /\ remaining' = 0
    /\ up' = NoFetch
    /\ writeCalls' = <<>>
    /\ bcalls' = 0
    /\ Return(CatchAll(NewStatistics), NewStatistics, [NoObs EXCEPT !.catch_all = TRUE])
    /\ UNCHANGED <<config, pool, cf, cbVars, dyn, bpc, bw, ch, bres>>

\* The stage whose timeout_context is entered at each position.
StageAt ==
    [s1 |-> "load_configuration", s2 |-> "initialize_cloudflare_client",
     s4 |-> "initialize_dynamodb_client", s5 |-> "fetch_cloudflare_value",
     s6 |-> "transform_data"]

\* timeout_context yields False in one of steps 1, 2, 4, 5, 6.
DeadlineSkip ==
    /\ pc \in DOMAIN StageAt
    /\ \E r \in NextRemaining(remaining) :
        /\ CheckTimeout(r)
        /\ remaining' = r
    /\ Return(ErrorResponse("timeout", TRUE, stats), stats,
              [obs EXCEPT !.skipped = StageAt[pc]])
    /\ UNCHANGED <<key, config, pool, cf, up, invocations, cp, rsp, ov, tr, cbVars, bwVars>>

\* A check that also passes with exactly the buffer remaining.
DeadlinePasses_AtBuffer ==
    \E r \in NextRemaining(remaining) :
        /\ r >= buffer_seconds * 1000
        /\ remaining' = r

\* The deadline check at the entry of a stage passes.
DeadlinePasses ==
    \E r \in NextRemaining(remaining) :
        /\ ~CheckTimeout(r)
        /\ remaining' = r

\* Step 1: config_manager.load_config() returns.
LoadConfigOk ==
    /\ pc = "s1"
    /\ DeadlinePasses
    /\ pool' = [pool EXCEPT !.config_manager = TRUE]
    /\ \E m \in 0..MaxRetryCfg :
        config' = [retry_max_attempts |-> m, api_timeout_seconds |-> api_timeout_default]
    /\ obs' = [obs EXCEPT !.config_ok = TRUE]
    /\ pc' = "s2"
    /\ UNCHANGED <<key, cf, up, stats, result, invocations, cp, rsp, ov, tr, cbVars, bwVars>>

\* Step 1: load_config raises ConfigurationError.
LoadConfigError ==
    /\ pc = "s1"
    /\ DeadlinePasses
    /\ pool' = [pool EXCEPT !.config_manager = TRUE]
    /\ ReturnHandled("configuration", FALSE)
    /\ UNCHANGED <<key, config, cf, up, invocations, cp, rsp, ov, tr, cbVars, bwVars>>

\* ConnectionPool._should_recreate_cloudflare_client (the credentials are the
\* same in every configuration of the model).
ShouldRecreateCloudflareClient(c, cfg) == c.timeout # cfg.api_timeout_seconds

\* ConnectionPool._should_recreate_dynamodb_client (one table name).
ShouldRecreateDynamoDBClient(d, cfg) == d.max_retries # cfg.retry_max_attempts

\* A client whose breaker is the one of the client before it.
InitCloudflareOk_KeepsBreaker ==
    /\ pc = "s2"
    /\ DeadlinePasses
    /\ IF ~pool.cloudflare_client \/ ShouldRecreateCloudflareClient(cf, config)
       THEN /\ cf' = [max_attempts |-> config.retry_max_attempts,
                      timeout |-> config.api_timeout_seconds,
                      base_delay |-> base_delay, max_delay |-> max_delay,
                      jitter |-> TRUE]
            /\ cb' = cb
       ELSE UNCHANGED <<cf, cb>>
    /\ pool' = [pool EXCEPT !.cloudflare_client = TRUE, !.data_transformer = TRUE]
    /\ pc' = "s4"
    /\ UNCHANGED <<key, config, up, stats, result, obs, invocations, cp, rsp, ov, tr,
                   now, cbpc, cbLast, consec, hoSucc, bwVars>>

\* Steps 2 and 3: the pool hands out the Cloudflare client and the transformer.
InitCloudflareOk ==
    /\ pc = "s2"
    /\ DeadlinePasses
    /\ IF ~pool.cloudflare_client \/ ShouldRecreateCloudflareClient(cf, config)
       THEN /\ cf' = [max_attempts |-> config.retry_max_attempts,
                      timeout |-> config.api_timeout_seconds,
                      base_delay |-> base_delay, max_delay |-> max_delay,
                      jitter |-> TRUE]
            /\ cb' = CircuitBreakerInit
       ELSE UNCHANGED <<cf, cb>>
    /\ pool' = [pool EXCEPT !.cloudflare_client = TRUE, !.data_transformer = TRUE]
    /\ pc' = "s4"
    /\ UNCHANGED <<key, config, up, stats, result, obs, invocations, cp, rsp, ov, tr,
                   now, cbpc, cbLast, consec, hoSucc, bwVars>>

\* Step 2: building the client raises.
InitCloudflareError ==
    /\ pc = "s2"
    /\ DeadlinePasses
    /\ ReturnHandled("configuration", FALSE)
    /\ UNCHANGED <<key, config, pool, cf, up, invocations, cp, rsp, ov, tr, cbVars, bwVars>>

\* Step 4: the pool hands out the DynamoDB client.
InitDynamoDBOk ==
    /\ pc = "s4"
    /\ DeadlinePasses
    /\ IF ~pool.dynamodb_client \/ ShouldRecreateDynamoDBClient(dyn, config)
       THEN dyn' = DynamoDBClientInit(config.retry_max_attempts)
       ELSE dyn' = dyn
    /\ pool' = [pool EXCEPT !.dynamodb_client = TRUE]
    /\ bpc' = "idle"
    /\ bw' = NoBatch
    /\ ch' = NoChunk
    /\ bres' = NoResult
    /\ pc' = "s5"
    /\ UNCHANGED <<key, config, cf, up, stats, result, obs, invocations, cp, rsp, ov, tr,
                   cbVars, writeCalls, bcalls>>

\* Step 4: building the client raises DynamoDBError.
InitDynamoDBError ==
    /\ pc = "s4"
    /\ DeadlinePasses
    /\ ReturnHandled("storage", FALSE)
    /\ UNCHANGED <<key, config, pool, cf, up, invocations, cp, rsp, ov, tr, cbVars, bwVars>>

\* Steps 1, 3 and 4: an exception that the step's except clause does not name
\* (step 1 names ConfigurationError, step 4 DynamoDBError, step 3 has none).
UnexpectedError ==
    /\ pc \in {"s1", "s4"}
    /\ DeadlinePasses
    /\ ReturnUnexpected
    /\ UNCHANGED <<key, config, pool, cf, up, invocations, cp, rsp, ov, tr, cbVars, bwVars>>

\* Step 5, "except" clauses: the response for an error raised by get_value.
\* status is the error's status_code, None when it has none; line 227
\* compares it with 500, which raises TypeError for None.
FetchRaised(exception, status, origin) ==
    CASE exception = "CloudflareAuthenticationError" ->
            ReturnHandledFrom("authentication", FALSE, origin)
      [] exception = "CloudflareRateLimitError" ->
            ReturnHandledFrom("api", TRUE, origin)
      [] exception = "CloudflareAPIError" /\ status # None ->
            ReturnHandledFrom("api", status >= 500, origin)
      [] OTHER ->
            ReturnUnexpected

\* Step 5: cloudflare_client.get_value enters CircuitBreaker.call.
FetchBegin ==
    /\ pc = "s5"
    /\ DeadlinePasses
    /\ up' = [NoFetch EXCEPT !.started = now]
    /\ IF CallRejected(cb, now)
       THEN /\ FetchRaised("CloudflareAPIError", None, 0)
            /\ cb' = cb
       ELSE /\ cb' = CallAdmitted(cb, now)
            /\ pc' = "fetch"
            /\ UNCHANGED <<stats, result, obs>>
    /\ UNCHANGED <<key, config, pool, cf, invocations, cp, rsp, ov, tr,
                   now, cbpc, cbLast, consec, hoSucc, bwVars>>

\* A loop over range(max_attempts + 1).
AttemptLeft_OneMore == pc = "fetch" /\ up.attempt < cf.max_attempts + 1

\* The retry loop has an attempt left.
AttemptLeft == pc = "fetch" /\ up.attempt < cf.max_attempts

\* A loop that gives up one attempt early.
LastAttempt_Early == ~(up.attempt < cf.max_attempts - 2)

\* The attempt now made is the last one of the loop.
LastAttempt == ~(up.attempt < cf.max_attempts - 1)

\* up after one more physical request with the given outcome.
Requested(outcome) == [up EXCEPT !.outcomes = Append(@, outcome)]

\* The function wrapped by the breaker raised: _on_failure, then step 5's
\* except clauses.
FetchFails(outcome, exception, status) ==
    /\ up' = Requested(outcome)
    /\ cb' = OnFailure(cb, now)
    /\ now' = now
    /\ FetchRaised(exception, status, Len(up.outcomes) + 1)

\* A loop that books every failed attempt on the breaker before it sleeps.
FetchRetries_CountsAttempt(outcome, delay) ==
    /\ up' = [Requested(outcome) EXCEPT !.attempt = @ + 1,
                                        !.sleeps = Append(@, delay)]
    /\ now' = now + delay
    /\ cb' = OnFailure(cb, now)
    /\ UNCHANGED <<pc, stats, result, obs>>

\* The loop sleeps and goes on with the next attempt.
FetchRetries(outcome, delay) ==
    /\ up' = [Requested(outcome) EXCEPT !.attempt = @ + 1,
                                        !.sleeps = Append(@, delay)]
    /\ now' = now + delay
    /\ UNCHANGED <<cb, pc, stats, result, obs>>

fetchFrame == <<key, config, pool, cf, invocations, tr, cp, rsp, ov, remaining,
                cbpc, cbLast, consec, hoSucc, bwVars>>

\* A breaker call that books the returned response as a failure.
FetchSuccess_RecordsFailure ==
    /\ AttemptLeft
    /\ \E v \in ValueKinds : up' = [Requested("ok") EXCEPT !.value = v]
    /\ cb' = OnFailure(cb, now)
    /\ stats' = [stats EXCEPT !.cloudflare_api_calls = @ + 1]
    /\ obs' = [obs EXCEPT !.fetch_ok = TRUE]
    /\ pc' = "s6"
    /\ UNCHANGED <<now, result>>
    /\ UNCHANGED fetchFrame

\* A 2xx response that is a plain value or a successful envelope.
FetchSuccess ==
    /\ AttemptLeft
    /\ \E v \in ValueKinds : up' = [Requested("ok") EXCEPT !.value = v]
    /\ cb' = OnSuccess(cb)
    /\ stats' = [stats EXCEPT !.cloudflare_api_calls = @ + 1]
    /\ obs' = [obs EXCEPT !.fetch_ok = TRUE]
    /\ pc' = "s6"
    /\ UNCHANGED <<now, result>>
    /\ UNCHANGED fetchFrame

\* A 2xx response whose JSON body is an envelope with success = false or with
\* errors: get_value returns it, the handler raises CloudflareAPIError.
FetchEnvelopeError ==
    /\ AttemptLeft
    /\ up' = Requested("envelope_error")
    /\ cb' = OnSuccess(cb)
    /\ now' = now
    /\ LET st == [stats EXCEPT !.cloudflare_api_calls = @ + 1]
       IN  Return(CatchAll(st), st, [obs EXCEPT !.catch_all = TRUE])
    /\ UNCHANGED fetchFrame

\* A loop that treats 401 and 403 like a 5xx response.
FetchAuthError_Retried ==
    /\ AttemptLeft
    /\ \E status \in {401, 403} : \E rnd \in RandomValues :
        IF LastAttempt
        THEN FetchFails("auth", "CloudflareAuthenticationError", status)
        ELSE FetchRetries("auth", CalculateRetryDelay(up.attempt, rnd))
    /\ UNCHANGED fetchFrame

\* A 401 or 403 response.
FetchAuthError ==
    /\ AttemptLeft
    /\ \E status \in {401, 403} :
        FetchFails("auth", "CloudflareAuthenticationError", status)
    /\ UNCHANGED fetchFrame

\* A 429 response; h is its Retry-After header.
FetchRateLimited ==
    /\ AttemptLeft
    /\ \E h \in RetryAfterHeaders :
        LET received == [Requested("rate_limit") EXCEPT !.headers = Append(@, h)]
        IN  IF LastAttempt
            THEN /\ up' = received
                 /\ cb' = OnFailure(cb, now)
                 /\ now' = now
                 /\ FetchRaised("CloudflareRateLimitError", 429, Len(up.outcomes) + 1)
            ELSE /\ up' = [received EXCEPT !.attempt = @ + 1,
                                           !.sleeps = Append(@, RateLimitDelay(h))]
                 /\ now' = now + RateLimitDelay(h)
                 /\ UNCHANGED <<cb, pc, stats, result, obs>>
    /\ UNCHANGED fetchFrame

\* A retry loop that treats another 4xx response as it treats a 5xx response.
FetchClientError_Retried ==
    /\ AttemptLeft
    /\ \E status \in {400, 404} : \E rnd \in RandomValues :
        IF LastAttempt
        THEN FetchFails("client_error", "CloudflareAPIError", status)
        ELSE FetchRetries("client_error", CalculateRetryDelay(up.attempt, rnd))
    /\ UNCHANGED fetchFrame

\* Another 4xx response.
FetchClientError ==
    /\ AttemptLeft
    /\ \E status \in {400, 404} :
        FetchFails("client_error", "CloudflareAPIError", status)
    /\ UNCHANGED fetchFrame

\* A retry loop that gives up, instead of sleeping, when the sleep would end
\* with no more than the buffer remaining.
FetchServerError_ChecksDeadline ==
    /\ AttemptLeft
    /\ \E status \in {500, 503} : \E rnd \in RandomValues :
        IF LastAttempt
        THEN FetchFails("server_error", "CloudflareAPIError", status)
        ELSE IF CheckTimeout(remaining - (now - up.started)
                             - CalculateRetryDelay(up.attempt, rnd))
        THEN /\ up' = Requested("server_error")
             /\ cb' = OnFailure(cb, now)
             /\ now' = now
             /\ Return(ErrorResponse("timeout", TRUE, stats), stats,
                       [obs EXCEPT !.skipped = "fetch_cloudflare_value"])
        ELSE FetchRetries("server_error", CalculateRetryDelay(up.attempt, rnd))
    /\ UNCHANGED fetchFrame

\* A 5xx response.
FetchServerError ==
    /\ AttemptLeft
    /\ \E status \in {500, 503} : \E rnd \in RandomValues :
        IF LastAttempt
        THEN FetchFails("server_error", "CloudflareAPIError", status)
        ELSE FetchRetries("server_error", CalculateRetryDelay(up.attempt, rnd))
    /\ UNCHANGED fetchFrame

\* requests raises Timeout or another RequestException: a CloudflareAPIError
\* without status_code.
FetchNetworkError ==
    /\ AttemptLeft
    /\ \E rnd \in RandomValues :
        IF LastAttempt
        THEN FetchFails("network", "CloudflareAPIError", None)
        ELSE FetchRetries("network", CalculateRetryDelay(up.attempt, rnd))
    /\ UNCHANGED fetchFrame

\* The request raises something that is no CloudflareAPIError (for instance
\* int() of a malformed Retry-After header).
FetchUnexpected ==
    /\ AttemptLeft
    /\ FetchFails("unexpected", "Exception", None)
    /\ UNCHANGED fetchFrame

\* range(max_attempts) is empty: "All retry attempts exhausted".
FetchNoAttempt ==
    /\ pc = "fetch"
    /\ ~(up.attempt < cf.max_attempts)
    /\ up' = up
    /\ cb' = OnFailure(cb, now)
    /\ now' = now
    /\ FetchRaised("CloudflareAPIError", None, 0)
    /\ UNCHANGED fetchFrame

\* The value a response of the given kind carries.
ValueOfKind(v) ==
    IF v = "oversize" THEN StrValue(Repeat("x", MAX_DYNAMODB_ITEM_SIZE))
    ELSE StrValue(Text("v"))

\* What step 6 leaves behind for key_name k and a value of kind v.
Transformed(k, v) ==
    LET record == TransformKvRecord(StrValue(Text(k)), ValueOfKind(v), IsoTimestamp)
    IN  [key |-> StrValue(Text(k)), value |-> ValueOfKind(v), record |-> record,
         validated |-> IF ValidateRecord(record) THEN "ok" ELSE "raised"]

\* DataTransformer.validate_record accepts the record built from key and value.
RecordValid(k, v) == Transformed(k, v).validated = "ok"

\* Step 6: transform_kv_record and validate_record succeed.
TransformOk ==
    /\ pc = "s6"
    /\ DeadlinePasses
    /\ tr' = Transformed(key, up.value)
    /\ RecordValid(key, up.value)
    /\ stats' = [stats EXCEPT !.records_processed = @ + 1]
    /\ obs' = [obs EXCEPT !.transform_ran = TRUE, !.transform_ok = TRUE]
    /\ pc' = "s7"
    /\ UNCHANGED <<key, config, pool, cf, up, result, invocations, cp, rsp, ov, cbVars, bwVars>>

\* A step 6 that builds the error response and goes on to step 7.
TransformInvalid_Continues ==
    /\ pc = "s6"
    /\ DeadlinePasses
    /\ tr' = Transformed(key, up.value)
    /\ ~RecordValid(key, up.value)
    /\ result' = ErrorResponse("data_validation", FALSE, stats)
    /\ obs' = [obs EXCEPT !.transform_ran = TRUE]
    /\ pc' = "s7"
    /\ UNCHANGED <<key, config, pool, cf, up, stats, invocations, cp, rsp, ov, cbVars, bwVars>>

\* Step 6: DataValidationError.
TransformInvalid ==
    /\ pc = "s6"
    /\ DeadlinePasses
    /\ tr' = Transformed(key, up.value)
    /\ ~RecordValid(key, up.value)
    /\ Return(ErrorResponse("data_validation", FALSE, stats), stats,
              [obs EXCEPT !.transform_ran = TRUE])
    /\ UNCHANGED <<key, config, pool, cf, up, invocations, cp, rsp, ov, cbVars, bwVars>>

\* A step 7 that reports the skipped write like the earlier steps do.
StoreSkip_Fails ==
    /\ pc = "s7"
    /\ \E r \in NextRemaining(remaining) :
        /\ CheckTimeout(r)
        /\ remaining' = r
    /\ Return(ErrorResponse("timeout", TRUE, stats), stats,
              [obs EXCEPT !.skipped = "store_record"])
    /\ UNCHANGED <<key, config, pool, cf, up, invocations, cp, rsp, ov, tr, cbVars, bwVars>>

\* Step 7: timeout_context yields False, "partial success".
StoreSkip ==
    /\ pc = "s7"
    /\ \E r \in NextRemaining(remaining) :
        /\ CheckTimeout(r)
        /\ remaining' = r
    /\ Return(SuccessResponse([key_retrieved |-> TRUE, record_processed |-> TRUE,
                               record_stored |-> FALSE, timeout_occurred |-> TRUE],
                              stats),
              stats, [obs EXCEPT !.skipped = "store_record"])
    /\ UNCHANGED <<key, config, pool, cf, up, invocations, cp, rsp, ov, tr, cbVars, bwVars>>

\* Step 7: dynamodb_client.batch_write_records([record]) is called.
StoreBegin ==
    /\ pc = "s7"
    /\ DeadlinePasses
    /\ BatchWriteStart(1, {})
    /\ pc' = "store"
    /\ UNCHANGED <<key, config, pool, cf, up, stats, result, obs, invocations, cp, rsp, ov, tr, cbVars>>

\* Step 7 after batch_write_records returned, and step 8.
StoreDone ==
    /\ pc = "store"
    /\ bpc = "returned"
    /\ LET st == [stats EXCEPT !.dynamodb_writes = @ + 1,
                               !.records_stored = @ + bres.successful_records]
       IN  Return(SuccessResponse([key_retrieved |-> TRUE, record_processed |-> TRUE,
                                   record_stored |-> bres.successful_records > 0,
                                   record_failed |-> bres.failed_records > 0],
                                  st),
                  st, obs)
    /\ UNCHANGED <<key, config, remaining, pool, cf, up, invocations, cp, rsp, ov, tr, cbVars, bwVars>>

\* A cleanup that drops the configuration manager and keeps the clients.
PoolCleanup_KeepsClients(p) == [p EXCEPT !.config_manager = FALSE]

\* ConnectionPool.cleanup
PoolCleanup(p) == EmptyPool

\* finally: cleanup_lambda_resources, then the handler returns.  An error
\* of session.close() is caught inside cleanup and the slots are reset anyway.
Cleanup ==
    /\ pc = "finally"
    /\ pool' = PoolCleanup(pool)
    /\ pc' = "idle"
    /\ UNCHANGED <<key, config, remaining, cf, up, stats, result, obs, invocations, cp, rsp, ov, tr,
                   cbVars, bwVars>>

Init ==
    /\ cb = CircuitBreakerInit
    /\ now = 0
    /\ cbpc = "idle"
    /\ cbLast = "none"
    /\ consec = 0
    /\ hoSucc = 0
    /\ dyn = DynamoDBClientInit(DEFAULT_MAX_RETRIES)
    /\ BatchIdle
    /\ HandlerIdle

Next ==
    \/ InvokeOk
    \/ InvokeUnexpected
    \/ DeadlineSkip
    \/ LoadConfigOk
    \/ LoadConfigError
    \/ InitCloudflareOk
    \/ InitCloudflareError
    \/ InitDynamoDBOk
    \/ InitDynamoDBError
    \/ UnexpectedError
    \/ FetchBegin
    \/ FetchSuccess
    \/ FetchEnvelopeError
    \/ FetchAuthError
    \/ FetchRateLimited
    \/ FetchClientError
    \/ FetchServerError
    \/ FetchNetworkError
    \/ FetchUnexpected
    \/ FetchNoAttempt
    \/ TransformOk
    \/ TransformInvalid
    \/ StoreSkip
    \/ StoreBegin
    \/ (\E u \in 0..MAX_BATCH_SIZE : WriteResponse(u)) /\ pc = "store" /\ UNCHANGED <<cbVars, hVars>>
    \/ WriteRetryableError /\ pc = "store" /\ UNCHANGED <<cbVars, hVars>>
    \/ WriteFatalError /\ pc = "store" /\ UNCHANGED <<cbVars, hVars>>
    \/ StoreDone
    \/ Cleanup

Spec == Init /\ [][Next]_vars

(***************************************************************************)
(* Properties of lambda_handler                                            *)
(***************************************************************************)
\* The invocation has produced its return value.
Returned == pc \in {"finally", "idle"} /\ invocations > 0

\* The invocation's return value reports a failure.
Failed == result.kind = "response" /\ ~result.success

\* The external operations performed so far in the invocation.
Requests == Len(up.outcomes)
Writes == Len(writeCalls)

\* C1: whatever the event, the context and the outcomes of the external calls,
\* an invocation ends with a returned mapping that has a boolean success and a
\* statistics block, never with an escaping exception; an error that no step
\* handles is reported as a failure of category unknown with is_retryable false.
C1_StructuredResult ==
    /\ result.kind \in {"none", "response"}
    /\ Returned => result.kind = "response"
    /\ result.kind = "response" =>
        /\ {"success", "statistics"} \subseteq DOMAIN result
        /\ result.success \in BOOLEAN
    /\ obs.catch_all =>
        /\ Failed
        /\ result.error.category = "unknown"
        /\ result.error.is_retryable = FALSE

\* An unexpected error in the middle of the pipeline, after an upstream request.
C1_Witness ==
    /\ pc = "idle"
    /\ obs.catch_all
    /\ Requests > 0
    /\ Failed

\* C2: an upstream request is made only after the configuration loaded, the
\* transform runs only after the fetch returned a successful value, a store
\* write is made only after transform and validation succeeded, and once the
\* invocation has reported a failure it performs no further upstream request,
\* transform or store write.
C2_StagesInOrder ==
    /\ [](/\ (Requests > 0 \/ pc = "fetch") => obs.config_ok
          /\ obs.transform_ran => obs.fetch_ok
          /\ (Writes > 0 \/ pc = "store") => obs.transform_ok)
    /\ [][(Failed /\ invocations' = invocations) =>
            /\ up'.outcomes = up.outcomes
            /\ writeCalls' = writeCalls
            /\ obs'.transform_ran = obs.transform_ran
            /\ Failed']_vars

\* The transform stage failed after a successful fetch and nothing was written.
C2_Witness ==
    /\ pc = "idle"
    /\ Failed
    /\ obs.fetch_ok
    /\ obs.transform_ran
    /\ ~obs.transform_ok
    /\ Writes = 0

\* C4: when the store write raises a non-retryable provider error after a
\* successful fetch and transform, the invocation returns success = true and
\* its statistics show records_stored = 0, records_failed = 1 and a success
\* rate of 0.0.
C4_StoreErrorStatistics ==
    (/\ Returned
     /\ Writes > 0
     /\ writeCalls[Writes].outcome = "fatal") =>
        /\ result.success
        /\ result.statistics.records_stored = 0
        /\ result.statistics.records_failed = 1
        /\ result.statistics.success_rate = 0

\* The steps before the store write, in program order.
StageOrder ==
    [load_configuration |-> 1, initialize_cloudflare_client |-> 2,
     initialize_dynamodb_client |-> 4, fetch_cloudflare_value |-> 5,
     transform_data |-> 6]

\* C5: when the deadline check fails at the entry of one of the steps before
\* the store write, the step's body and every later step are skipped (no
\* configuration, no client, no upstream request, no transform, no store write
\* from that step on) and the invocation returns a failure of category timeout
\* with is_retryable true; with 25 s remaining and the 30 s buffer the check of
\* the first step fails, so there is no upstream request and no store write.
C5_DeadlineSkipsStage ==
    /\ obs.skipped \in DOMAIN StageOrder =>
        /\ Failed
        /\ result.error.category = "timeout"
        /\ result.error.is_retryable = TRUE
        /\ Writes = 0
        /\ ~obs.transform_ran
        /\ StageOrder[obs.skipped] <= 5 => Requests = 0 /\ ~obs.fetch_ok
        /\ StageOrder[obs.skipped] <= 4 => ~pool.dynamodb_client
        /\ StageOrder[obs.skipped] <= 2 => ~pool.cloudflare_client
        /\ StageOrder[obs.skipped] <= 1 => ~obs.config_ok
    /\ (obs.first_remaining = 25000 /\ pc # "s1") =>
        /\ obs.skipped = "load_configuration"
        /\ Requests = 0
        /\ Writes = 0

\* The check at the transform step failed after a fetch that made a request.
C5_Witness ==
    /\ pc = "idle"
    /\ obs.skipped = "transform_data"
    /\ Requests > 0
    /\ obs.fetch_ok

\* C6: when the deadline check fails at the entry of the store step, after
\* fetch, transform and validation succeeded, no store write is made and the
\* invocation returns success = true with record_stored = false and
\* timeout_occurred = true.
C6_StoreSkipIsPartialSuccess ==
    obs.skipped = "store_record" =>
        /\ obs.fetch_ok
        /\ obs.transform_ok
        /\ Writes = 0
        /\ bpc = "idle"
        /\ result.kind = "response"
        /\ result.success
        /\ result.data.record_stored = FALSE
        /\ result.data.timeout_occurred = TRUE

\* The store step was skipped and the invocation has ended.
C6_Witness ==
    /\ pc = "idle"
    /\ obs.skipped = "store_record"
    /\ result.success

\* C10: a 401 or 403 response is the last request of the fetch: there is no
\* sleep and no request after it (one request and no sleep at all when it
\* answers the first attempt), and the invocation returns a failure of category
\* authentication with is_retryable false without transform or store write.
C10_AuthNeverRetried ==
    \A i \in 1..Requests :
        up.outcomes[i] = "auth" =>
            /\ i = Requests
            /\ Len(up.sleeps) = Requests - 1
            /\ up.outcomes[1] = "auth" => Requests = 1 /\ up.sleeps = <<>>
            /\ Returned
            /\ Failed
            /\ result.error.category = "authentication"
            /\ result.error.is_retryable = FALSE
            /\ ~obs.transform_ran
            /\ Writes = 0

\* The first request was answered 401 or 403 by a client that allows retries.
C10_Witness ==
    /\ pc = "idle"
    /\ up.outcomes = <<"auth">>
    /\ cf.max_attempts > 1
    /\ result.error.category = "authentication"

\* Positions at which a timeout_context is entered.
StagePositions == DOMAIN StageAt \cup {"s7"}

\* C29: the deadline check answers "may not proceed" exactly when the
\* remaining time divided by 1000 is no more than buffer_seconds, and "may
\* proceed" otherwise, for every reading, 0 and negative ones included; a
\* context without a remaining-time function reads 0, so its first stage is
\* skipped.
C29_DeadlineCheckExact ==
    /\ [][(pc \in StagePositions /\ pc' # pc) =>
            ((obs'.skipped # "none") <=> (remaining' <= buffer_seconds * 1000))]_vars
    /\ []((obs.first_remaining <= 0 /\ pc \notin {"idle", "s1"} /\ ~obs.catch_all)
            => obs.skipped = "load_configuration")

\* A stage was skipped with exactly the buffer remaining.
C29_Witness ==
    /\ remaining = buffer_seconds * 1000
    /\ obs.skipped = "initialize_dynamodb_client"
    /\ pc = "idle"

(***************************************************************************)
(* Properties of the upstream retry loop                                   *)
(***************************************************************************)
\* Every upstream request of the invocation so far had the given outcome.
AllOutcomes(o) == Requests > 0 /\ \A i \in 1..Requests : up.outcomes[i] = o

RECURSIVE SumSeq(_)
\* The total of the waits of a fetch, in milliseconds.
SumSeq(q) == IF q = <<>> THEN 0 ELSE Head(q) + SumSeq(Tail(q))

\* The outcomes after which the loop goes on to another attempt.
RetriedOutcomes == {"rate_limit", "server_error", "network"}

\* C11: when every attempt is answered 429, each attempt uses up one of the
\* max_attempts, the wait before each retry is the Retry-After value of the
\* response (60 s when the header is absent), the time spent waiting is the sum
\* of those values, and after the last attempt the invocation returns a failure
\* of category api with is_retryable true.
C11_RateLimitWaits ==
    AllOutcomes("rate_limit") =>
        /\ Requests <= cf.max_attempts
        /\ \A i \in 1..Len(up.sleeps) :
            up.sleeps[i] = (IF up.headers[i] = None THEN default_retry_after
                                                   ELSE up.headers[i]) * 1000
        /\ now - up.started = SumSeq(up.sleeps)
        /\ Returned =>
            /\ Requests = cf.max_attempts
            /\ Len(up.sleeps) = Requests - 1
            /\ Failed
            /\ result.error.category = "api"
            /\ result.error.is_retryable = TRUE

C14_TimeoutIsRetryableApiError ==
    AllOutcomes("network") =>
        /\ \A i \in 1..Len(up.sleeps) :
            \E rnd \in RandomValues : up.sleeps[i] = CalculateRetryDelay(i - 1, rnd)
        /\ Returned =>
            /\ Requests = cf.max_attempts
            /\ Failed
            /\ result.error.category = "api"
            /\ result.error.is_retryable = TRUE

LoopStepIgnoresDeadline ==
    /\ remaining' = remaining
    /\ obs'.skipped = obs.skipped
    /\ (pc = "fetch" /\ pc' # "fetch" /\ up'.outcomes # <<>>
          /\ up'.outcomes[Len(up'.outcomes)] \in {"server_error", "network"})
       => up.attempt = cf.max_attempts - 1

C32_EnvelopeErrorIsApiFailure ==
    (Returned /\ Requests > 0 /\ up.outcomes[Requests] = "envelope_error") =>
        /\ Failed
        /\ result.error.category = "api"
        /\ ~obs.transform_ran
        /\ Writes = 0

\* The step ends the logical operation with an exception.
OperationFails ==
    /\ pc = "fetch"
    /\ pc' # "fetch"
    /\ up'.outcomes # <<>> => up'.outcomes[Len(up'.outcomes)] \notin {"ok", "envelope_error"}

\* A step of the logical operation and what it does to failure_count.
OperationStepCountsOnce ==
    /\ pc' = "fetch" => cb'.failure_count = cb.failure_count
    /\ OperationFails => cb'.failure_count = cb.failure_count + 1
    /\ (pc' # "fetch" /\ ~OperationFails) => cb'.failure_count <= cb.failure_count
    /\ cb'.failure_count - cb.failure_count \in {-1, 0, 1}

\* C35: one logical upstream operation changes failure_count by at most one,
\* however many requests its loop made: a failed attempt that is followed by a
\* retry leaves it alone, and the operation's final failure adds exactly 1.
C35_OneOperationCountsOnce ==
    [][(pc \in {"s5", "fetch"}) => OperationStepCountsOnce]_vars

\* An operation that failed on its second request was counted once.
C35_Witness ==
    /\ pc = "finally"
    /\ Requests = 2
    /\ up.outcomes = <<"server_error", "server_error">>
    /\ cb.failure_count = 1

C38_AtLeastOneRequest ==
    [][(pc = "fetch" /\ pc' # "fetch") =>
          (Len(up'.outcomes) >= 1 /\ Len(up'.outcomes) <= cf.max_attempts)]_vars

(***************************************************************************)
(* Properties of DynamoDBClient.batch_write_records                        *)
(***************************************************************************)
RECURSIVE Flatten(_)
\* The batches put end to end.
Flatten(bs) == IF bs = <<>> THEN <<>> ELSE Head(bs) \o Flatten(Tail(bs))

\* math.ceil(a / b)
CeilDiv(a, b) == (a + b - 1) \div b

\* Every batch_write_item call of the current batch_write_records call was
\* answered with no unprocessed item.
AllFirstAttempt ==
    \A i \in 1..Len(writeCalls) :
        writeCalls[i].outcome = "response" /\ writeCalls[i].unprocessed = 0

\* C15: a submission of n > 0 records is split into ceil(n / 25) chunks of at
\* most 25 items, every submitted record is in exactly one chunk, and when
\* every item is written at the first attempt there are exactly ceil(n / 25)
\* write calls.
C15_ChunksCoverSubmission ==
    (bw.n > 0 /\ bpc \in {"loop", "returned"}) =>
        /\ Len(bw.batches) = CeilDiv(bw.n, MAX_BATCH_SIZE)
        /\ \A b \in 1..Len(bw.batches) : Len(bw.batches[b]) <= MAX_BATCH_SIZE
        /\ \A r \in 1..bw.n :
            Cardinality({b \in 1..Len(bw.batches) :
                            \E j \in 1..Len(bw.batches[b]) : bw.batches[b][j] = r}) = 1
        /\ (bpc = "returned" /\ AllFirstAttempt) =>
                Len(writeCalls) = CeilDiv(bw.n, MAX_BATCH_SIZE)

\* C15 as amended: the m records of a submission that convert to items are
\* split, in order, into ceil(m / 25) chunks of 1 to 25 items, every converted
\* record is in exactly one chunk and no other record is in any, and when every
\* item is written at the first attempt the write calls are exactly the
\* chunks (30 convertible records give 2 calls, of 25 and 5 items).
C15_ChunksCoverConvertedItems ==
    (bw.n > 0 /\ bpc \in {"loop", "returned"}) =>
        /\ Flatten(bw.batches) = bw.items
        /\ \A i \in 1..Len(bw.items) :
            /\ bw.items[i] \in 1..bw.n
            /\ \A j \in 1..(i - 1) : bw.items[j] < bw.items[i]
        /\ Len(bw.batches) = CeilDiv(Len(bw.items), MAX_BATCH_SIZE)
        /\ \A b \in 1..Len(bw.batches) :
            Len(bw.batches[b]) \in 1..MAX_BATCH_SIZE
        /\ (bpc = "returned" /\ AllFirstAttempt) =>
            /\ Len(writeCalls) = Len(bw.batches)
            /\ \A i \in 1..Len(writeCalls) : writeCalls[i].items = bw.batches[i]
        /\ Len(bw.items) = 30 =>
            /\ Len(bw.batches) = 2
            /\ Len(bw.batches[1]) = 25
            /\ Len(bw.batches[2]) = 5

\* More than 25 records were written in two calls, all at the first attempt.
C15_Witness ==
    /\ bpc = "returned"
    /\ AllFirstAttempt
    /\ Len(bw.items) > MAX_BATCH_SIZE
    /\ Len(writeCalls) = 2
    /\ bres.successful_records = Len(bw.items)

\* C16: batch_write_records on an empty list returns zero successful, zero
\* failed, zero attempts and no errors, makes no write call and leaves all the
\* running statistics of the client unchanged.
C16_EmptyListIsNoOp ==
    /\ [][(bcalls' = bcalls + 1 /\ bw'.n = 0) =>
            /\ bpc' = "returned"
            /\ bres'.returned
            /\ bres'.successful_records = 0
            /\ bres'.failed_records = 0
            /\ bres'.total_attempts = 0
            /\ bres'.errors = 0
            /\ bres'.unprocessed_items = <<>>
            /\ writeCalls' = <<>>
            /\ dyn' = dyn]_vars
    /\ []((bcalls > 0 /\ bw.n = 0) => bpc = "returned" /\ writeCalls = <<>>)

\* An empty list was submitted to a client that had already written records.
C16_Witness ==
    /\ bpc = "returned"
    /\ bcalls = 2
    /\ bw.n = 0
    /\ bres.returned
    /\ dyn.total_records_attempted > 0
    /\ dyn.total_write_operations > 0

\* C17: after every return of batch_write_records, whatever the calls made on
\* the client and whatever the store answered, total_records_successful +
\* total_records_failed equals total_records_attempted.
C17_RunningStatisticsReconcile ==
    bpc = "returned" =>
        dyn.total_records_successful + dyn.total_records_failed
            = dyn.total_records_attempted

\* The number of the attempt, within its batch, that made call i.
AttemptOf(i) == Cardinality({j \in 1..i : writeCalls[j].batch = writeCalls[i].batch})

\* Call i is the last call of its batch so far made.
LastOfBatch(i) == i < Len(writeCalls) => writeCalls[i + 1].batch # writeCalls[i].batch

\* Every item of sequence a occurs in sequence b.
ItemsWithin(a, b) == \A j \in 1..Len(a) : \E k \in 1..Len(b) : a[j] = b[k]

C27_RetryableAndFatalErrors ==
    /\ [](\A i \in 1..Len(writeCalls) :
            LET c == writeCalls[i]
            IN  /\ c.outcome = "retryable" =>
                        IF AttemptOf(i) <= dyn.max_retries
                        THEN /\ c.ended = "continue"
                             /\ i < Len(writeCalls) =>
                                    /\ writeCalls[i + 1].batch = c.batch
                                    /\ writeCalls[i + 1].items = c.items
                        ELSE c.ended = "raised" /\ LastOfBatch(i)
                /\ c.outcome = "fatal" => c.ended = "raised" /\ LastOfBatch(i))
    /\ [][(Len(writeCalls') = Len(writeCalls) + 1
           /\ writeCalls'[Len(writeCalls')].ended = "raised") =>
                /\ bw'.failed_records
                        = bw.failed_records + Len(bw.batches[bw.batch_num])
                /\ bw'.successful_records = bw.successful_records]_vars

\* A retryable error was followed by a resubmission that met a fatal error,
\* and the call returned with every record failed.
C27_Witness ==
    /\ bpc = "returned"
    /\ Len(writeCalls) = 2
    /\ writeCalls[1].outcome = "retryable"
    /\ writeCalls[2].outcome = "fatal"
    /\ writeCalls[2].items = writeCalls[1].items
    /\ bres.failed_records = bw.n
    /\ bw.n > 0

\* C28: when a chunk write ends with a non-retryable provider error, or with
\* a retryable one after the retries are used up, batch_write_records raises
\* DynamoDBError to its caller instead of returning a result.
C28_ChunkErrorPropagates ==
    (bpc = "returned" /\ \E i \in 1..Len(writeCalls) : writeCalls[i].ended = "raised")
        => ~bres.returned

\* The items the store accepted in the calls made so far: those of each
\* answered call that it did not return as unprocessed.
Accepted ==
    SumSeq([i \in 1..Len(writeCalls) |->
              IF writeCalls[i].outcome = "response"
              THEN Len(writeCalls[i].items) - writeCalls[i].unprocessed
              ELSE 0])

\* C37: the successful_records count batch_write_records reports equals the
\* number of submitted items the store accepted, for every pattern of
\* responses, a chunk whose later attempt ends in a provider error after an
\* earlier attempt had items accepted included.
C37_SuccessfulCountsAccepted ==
    bpc = "returned" => bres.successful_records = Accepted

(***************************************************************************)
(* SpecLive: lambda_handler under the assumption that a running invocation *)
(* goes on: every external call it waits for returns or raises, and the    *)
(* interpreter takes the next step.  The environment need not invoke.      *)
(***************************************************************************)
\* A step of the invocation in progress.
Running == pc # "idle" /\ Next

SpecLive == Init /\ [][Next]_vars /\ WF_vars(Running)

\* C39: every invocation terminates.  The upstream loop makes at most
\* max_attempts requests, the write loop of a chunk at most max_retries + 1
\* calls whatever the store answers, and an invocation in progress
\* eventually returns and finishes its cleanup.
C39_EveryInvocationTerminates ==
    /\ [](Requests <= cf.max_attempts)
    /\ [](\A i \in 1..Len(writeCalls) : AttemptOf(i) <= dyn.max_retries + 1)
    /\ (pc # "idle") ~> (pc = "idle")

\* An invocation has returned after its fetch used every attempt and its one
\* chunk every call the loops allow.
C39_Witness ==
    /\ pc = "idle"
    /\ invocations > 0
    /\ cf.max_attempts = MaxRetryCfg
    /\ Requests = cf.max_attempts
    /\ Writes = dyn.max_retries + 1

(***************************************************************************)
(* SpecDelay: _calculate_retry_delay of a client with any RetryConfig,     *)
(* called for attempt 0, 1, 2, ... as the retry loop does.                 *)
(***************************************************************************)
\* The RetryConfig values a client is built with, in seconds.
BaseDelays == {1, 2}
MaxDelays == {4, 60}

\* Values of random.random() in thousandths, from its range [0.0, 1.0); they
\* are multiples of 0.004, which makes the jitter a whole number of
\* milliseconds.
JitterDraws == {0, 500, 996}

\* The delay before any jitter: min(base_delay * 2 ** attempt, max_delay), in
\* milliseconds.
CappedDelay(rc, attempt) ==
    Min(rc.base_delay * 1000 * Pow2(attempt), rc.max_delay * 1000)

DelayInit ==
    /\ cb = CircuitBreakerInit
    /\ now = 0
    /\ cbpc = "idle"
    /\ cbLast = "none"
    /\ consec = 0
    /\ hoSucc = 0
    /\ dyn = DynamoDBClientInit(DEFAULT_MAX_RETRIES)
    /\ BatchIdle
    /\ pc = "idle"
    /\ key = ""
    /\ config = NoConfig
    /\ remaining = 0
    /\ pool = EmptyPool
    /\ \E b \in BaseDelays : \E m \in MaxDelays : \E j \in BOOLEAN :
        cf = [max_attempts |-> MaxDelayAttempts + 1, timeout |-> api_timeout_default,
              base_delay |-> b, max_delay |-> m, jitter |-> j]
    /\ up = NoFetch
    /\ stats = NewStatistics
    /\ result = [kind |-> "none"]
    /\ obs = NoObs
    /\ tr = NoTransform
    /\ cp = NewConnectionPool
    /\ rsp = NoResponse
    /\ ov = NoOverlap
    /\ invocations = 0

\* delay = self._calculate_retry_delay(attempt) for the next attempt number.
CalculateDelay ==
    /\ up.attempt < MaxDelayAttempts
    /\ \E rnd \in JitterDraws :
        up' = [up EXCEPT !.attempt = @ + 1,
                         !.sleeps = Append(@, RetryDelay(cf, up.attempt, rnd)),
                         !.draws = Append(@, rnd)]
    /\ UNCHANGED <<pc, key, config, remaining, pool, cf, stats, result, obs, invocations, cp, rsp, ov, tr>>
    /\ UNCHANGED <<cbVars, bwVars>>

DelayNext == CalculateDelay

SpecDelay == DelayInit /\ [][DelayNext]_vars

\* C18: the exponential retry delay never decreases from one attempt to the
\* next and never exceeds max_delay, whatever the attempt number and whether
\* or not jitter is enabled.
C18_DelayMonotoneAndCapped ==
    \A i \in 1..Len(up.sleeps) :
        /\ up.sleeps[i] <= cf.max_delay * 1000
        /\ i > 1 => up.sleeps[i - 1] <= up.sleeps[i]

TransformKeys ==
    {StrValue(Text("")), StrValue(Text("k")),
     StrValue(Repeat("k", MaxPkBytes - Len("cf_kv#"))),
     StrValue(Repeat("k", MaxPkBytes - Len("cf_kv#") + 1))}

\* isoformat() with and without microseconds.
Timestamps == {IsoTimestamp, StrValue(Repeat("0", 25))}

\* The longest str value that key "k" can carry within the item size limit.
MaxValueLen ==
    MAX_DYNAMODB_ITEM_SIZE
    - EstimateItemSize(TransformKvRecord(StrValue(Text("k")), StrValue(Text("")),
                                         IsoTimestamp))
    - Len("value")

SmallScalars == {NoneValue, StrValue(Text("v")), IntValue(42), BoolValue(TRUE)}

Scalars ==
    SmallScalars \cup
    {StrValue(Text("")), IntValue(0), IntValue(-7), BoolValue(FALSE),
     StrValue(Repeat("x", MaxValueLen)), StrValue(Repeat("x", MaxValueLen + 1))}

Lists ==
    {ListValue(<<>>)} \cup {ListValue(<<a>>) : a \in SmallScalars}
    \cup {ListValue(<<a, b>>) : a \in SmallScalars, b \in SmallScalars}

Dicts ==
    {DictValue(<<>>, <<>>)} \cup {DictValue(<<"a">>, <<a>>) : a \in SmallScalars}
    \cup {DictValue(<<"a", "b">>, <<a, b>>) : a \in SmallScalars, b \in SmallScalars}

Nested ==
    {ListValue(<<x>>) : x \in Lists \cup Dicts}
    \cup {DictValue(<<"a">>, <<x>>) : x \in Lists \cup Dicts}
    \cup {ListValue(<<StrValue(Repeat("x", MaxValueLen))>>)}

Values == Scalars \cup Lists \cup Dicts \cup Nested

TransformInit ==
    /\ cb = CircuitBreakerInit
    /\ now = 0
    /\ cbpc = "idle"
    /\ cbLast = "none"
    /\ consec = 0
    /\ hoSucc = 0
    /\ dyn = DynamoDBClientInit(DEFAULT_MAX_RETRIES)
    /\ BatchIdle
    /\ pc = "idle"
    /\ key = ""
    /\ config = NoConfig
    /\ remaining = 0
    /\ pool = EmptyPool
    /\ cf = NoClient
    /\ up = NoFetch
    /\ stats = NewStatistics
    /\ result = [kind |-> "none"]
    /\ obs = NoObs
    /\ \E k \in TransformKeys : \E v \in Values :
        tr = [NoTransform EXCEPT !.key = k, !.value = v]
    /\ cp = NewConnectionPool
    /\ rsp = NoResponse
    /\ ov = NoOverlap
    /\ invocations = 0

\* record = transformer.transform_kv_record(key, value, cloudflare_key)
TransformKv ==
    /\ tr.record = NoneValue
    /\ \E ts \in Timestamps :
        tr' = [tr EXCEPT !.record = TransformKvRecord(tr.key, tr.value, ts)]
    /\ UNCHANGED <<pc, key, config, remaining, pool, cf, up, stats, result, obs,
                   invocations, cp, rsp, ov, cbVars, bwVars>>

\* transformer.validate_record(record)
Validate ==
    /\ tr.record # NoneValue
    /\ tr.validated = "none"
    /\ tr' = [tr EXCEPT !.validated = IF ValidateRecord(tr.record) THEN "ok"
                                      ELSE "raised"]
    /\ UNCHANGED <<pc, key, config, remaining, pool, cf, up, stats, result, obs,
                   invocations, cp, rsp, ov, cbVars, bwVars>>

TransformNext == TransformKv \/ Validate

SpecTransform == TransformInit /\ [][TransformNext]_vars

\* The record stays within the size and key-length ceilings.
WithinCeilings(record) ==
    /\ EstimateItemSize(record) <= MAX_DYNAMODB_ITEM_SIZE
    /\ TextLen(record.pk.s) <= MaxPkBytes
    /\ TextLen(record.sk.s) <= MaxSkBytes

RECURSIVE Copies(_, _)
Copies(s, n) == IF n = 0 THEN "" ELSE s \o Copies(s, n - 1)

\* The characters of a short text.
RECURSIVE Flat(_)
Flat(t) == IF t = <<>> THEN "" ELSE Copies(Head(t).s, Head(t).n) \o Flat(Tail(t))

BaseCredentials ==
    [api_token |-> "t1", account_id |-> "a1", kv_namespace_id |-> "n1",
     kv_namespace |-> "ns1"]

BaseConfig ==
    [cloudflare_credentials |-> BaseCredentials,
     api_timeout_seconds |-> api_timeout_default,
     retry_max_attempts |-> DEFAULT_MAX_RETRIES,
     dynamodb_table_name |-> "table1"]

\* The base configuration and those that differ from it in one value.
PoolConfigs ==
    {BaseConfig,
     [BaseConfig EXCEPT !.cloudflare_credentials.api_token = "t2"],
     [BaseConfig EXCEPT !.cloudflare_credentials.account_id = "a2"],
     [BaseConfig EXCEPT !.cloudflare_credentials.kv_namespace_id = "n2"],
     [BaseConfig EXCEPT !.cloudflare_credentials.kv_namespace = "ns2"],
     [BaseConfig EXCEPT !.api_timeout_seconds = 10],
     [BaseConfig EXCEPT !.retry_max_attempts = 0],
     [BaseConfig EXCEPT !.dynamodb_table_name = "table2"]}

\* CloudflareClient(credentials, timeout, RetryConfig(max_attempts, ...))
NewCloudflareClient(id, cfg) ==
    [id |-> id, credentials |-> cfg.cloudflare_credentials,
     timeout |-> cfg.api_timeout_seconds, max_attempts |-> cfg.retry_max_attempts]

\* DynamoDBClient(table_name, max_retries)
NewDynamoDBClient(id, cfg) ==
    [id |-> id, table_name |-> cfg.dynamodb_table_name,
     max_retries |-> DynamoDBClientInit(cfg.retry_max_attempts).max_retries]

\* DataTransformer(namespace_id)
NewDataTransformer(id, ns) == [id |-> id, namespace_id |-> ns]

\* _should_recreate_cloudflare_client
PoolShouldRecreateCloudflareClient(p, cfg) ==
    \/ p.cloudflare_client = NoInstance
    \/ cfg.cloudflare_credentials.api_token # p.cloudflare_client.credentials.api_token
    \/ cfg.cloudflare_credentials.account_id # p.cloudflare_client.credentials.account_id
    \/ cfg.cloudflare_credentials.kv_namespace_id
            # p.cloudflare_client.credentials.kv_namespace_id
    \/ p.cloudflare_client.timeout # cfg.api_timeout_seconds

\* _should_recreate_dynamodb_client
PoolShouldRecreateDynamoDBClient(p, cfg) ==
    \/ p.dynamodb_client = NoInstance
    \/ p.dynamodb_client.table_name # cfg.dynamodb_table_name
    \/ p.dynamodb_client.max_retries # cfg.retry_max_attempts

\* The pool after a get_* call of the given kind that was asked for request,
\* found create true or false and, when true, put instance into the slot.
Served(p, kind, request, create, instance) ==
    LET returned == IF create THEN instance ELSE p[kind]
        call == [kind |-> kind, request |-> request, returned |-> returned,
                 constructed |-> create]
    IN  [p EXCEPT ![kind] = returned,
                  !.built = IF create THEN @ + 1 ELSE @,
                  !.usage_count = @ + 1,
                  !.served[kind] = call,
                  !.last = call]

GetConfigManagerOf(p) ==
    Served(p, "config_manager", NoCall, p.config_manager = NoInstance,
           [id |-> p.built + 1])

GetCloudflareClientOf(p, cfg) ==
    Served(p, "cloudflare_client", cfg,
           p.cloudflare_client = NoInstance \/ PoolShouldRecreateCloudflareClient(p, cfg),
           NewCloudflareClient(p.built + 1, cfg))

GetDynamoDBClientOf(p, cfg) ==
    Served(p, "dynamodb_client", cfg,
           p.dynamodb_client = NoInstance \/ PoolShouldRecreateDynamoDBClient(p, cfg),
           NewDynamoDBClient(p.built + 1, cfg))

GetDataTransformerOf(p, ns) ==
    Served(p, "data_transformer", ns,
           p.data_transformer = NoInstance \/ p.data_transformer.namespace_id # ns,
           NewDataTransformer(p.built + 1, ns))

\* A cleanup that lets the error of session.close() escape before the reset.
CleanupOf_Propagates(p, close_raises) ==
    IF p.cloudflare_client # NoInstance /\ close_raises
    THEN [p EXCEPT !.closed = @ \cup {p.cloudflare_client.id},
                   !.last = [kind |-> "cleanup", raised |-> TRUE]]
    ELSE [p EXCEPT !.config_manager = NoInstance, !.cloudflare_client = NoInstance,
                   !.dynamodb_client = NoInstance, !.data_transformer = NoInstance,
                   !.served = [k \in PoolKinds |-> NoCall],
                   !.last = [kind |-> "cleanup", raised |-> FALSE]]

\* ConnectionPool.cleanup; close_raises: session.close() raises an Exception.
CleanupOf(p, close_raises) ==
    [p EXCEPT !.closed = IF p.cloudflare_client # NoInstance
                         THEN @ \cup {p.cloudflare_client.id} ELSE @,
              !.config_manager = NoInstance, !.cloudflare_client = NoInstance,
              !.dynamodb_client = NoInstance, !.data_transformer = NoInstance,
              !.served = [k \in PoolKinds |-> NoCall],
              !.last = [kind |-> "cleanup", raised |-> FALSE]]

PoolInit ==
    /\ cb = CircuitBreakerInit
    /\ now = 0
    /\ cbpc = "idle"
    /\ cbLast = "none"
    /\ consec = 0
    /\ hoSucc = 0
    /\ dyn = DynamoDBClientInit(DEFAULT_MAX_RETRIES)
    /\ BatchIdle
    /\ HandlerIdle

poolFrame == <<pc, key, config, remaining, pool, cf, up, stats, result, obs, tr,
               rsp, ov, invocations, cbVars, bwVars>>

GetConfigManager ==
    /\ cp.usage_count < MaxPoolCalls
    /\ cp' = GetConfigManagerOf(cp)
    /\ UNCHANGED poolFrame

GetCloudflareClient ==
    /\ cp.usage_count < MaxPoolCalls
    /\ \E cfg \in PoolConfigs : cp' = GetCloudflareClientOf(cp, cfg)
    /\ UNCHANGED poolFrame

GetDynamoDBClient ==
    /\ cp.usage_count < MaxPoolCalls
    /\ \E cfg \in PoolConfigs : cp' = GetDynamoDBClientOf(cp, cfg)
    /\ UNCHANGED poolFrame

GetDataTransformer ==
    /\ cp.usage_count < MaxPoolCalls
    /\ \E cfg \in PoolConfigs :
        cp' = GetDataTransformerOf(cp, cfg.cloudflare_credentials.kv_namespace_id)
    /\ UNCHANGED poolFrame

PoolCleanupCall ==
    /\ \E close_raises \in BOOLEAN : cp' = CleanupOf(cp, close_raises)
    /\ UNCHANGED poolFrame

PoolNext ==
    \/ GetConfigManager
    \/ GetCloudflareClient
    \/ GetDynamoDBClient
    \/ GetDataTransformer
    \/ PoolCleanupCall

SpecPool == PoolInit /\ [][PoolNext]_vars

(***************************************************************************)
(* Properties of the connection pool (checked under SpecPool).             *)
(***************************************************************************)
\* The step is a get_* call of kind k.
GetStep(k) == cp'.usage_count = cp.usage_count + 1 /\ cp'.last.kind = k

\* C22: two get calls for the same kind of resource with equal requested
\* parameters and no cleanup between them return the identical instance,
\* which is constructed only once; for every kind and every configuration,
\* retry_max_attempts = 0 included.
C22_SameRequestSameInstance ==
    [][\A k \in PoolKinds :
        (GetStep(k) /\ cp.served[k] # NoCall /\ cp'.last.request = cp.served[k].request)
            => /\ cp'.last.returned = cp.served[k].returned
               /\ ~cp'.last.constructed]_vars

\* C23: every client a get call returns was built with exactly the requested
\* parameters: credentials, timeout and max-retry count for the Cloudflare
\* client, table name and max-retry count for the DynamoDB client.
C23_ReturnedClientMatchesRequest ==
    /\ cp.last.kind = "cloudflare_client" =>
        /\ cp.last.returned.credentials = cp.last.request.cloudflare_credentials
        /\ cp.last.returned.timeout = cp.last.request.api_timeout_seconds
        /\ cp.last.returned.max_attempts = cp.last.request.retry_max_attempts
    /\ cp.last.kind = "dynamodb_client" =>
        /\ cp.last.returned.table_name = cp.last.request.dynamodb_table_name
        /\ cp.last.returned.max_retries = cp.last.request.retry_max_attempts

\* C24: cleanup empties all four slots and closes the session of the
\* Cloudflare client when there is one; it does not raise, whichever slots
\* are populated and even when session.close() raises; a second cleanup
\* leaves the state of the first.
C24_CleanupResetsAndIsIdempotent ==
    [][cp'.last.kind = "cleanup" =>
        /\ \A k \in PoolKinds : cp'[k] = NoInstance
        /\ ~cp'.last.raised
        /\ cp.cloudflare_client # NoInstance => cp.cloudflare_client.id \in cp'.closed
        /\ \A close_raises \in BOOLEAN : CleanupOf(cp', close_raises) = cp']_vars

\* A pool holding a Cloudflare client and another resource was cleaned up.
C24_Witness ==
    /\ cp.last.kind = "cleanup"
    /\ cp.closed # {}
    /\ cp.built >= 2
    /\ \A k \in PoolKinds : cp[k] = NoInstance

(***************************************************************************)
(* cloudflare_client.CloudflareClient._handle_response on a 2xx response   *)
(* of the value endpoint                                                   *)
(*                                                                         *)
(* A Content-Type header is the sequence of its pieces; a body is either   *)
(* text that json() rejects or the value json() returns, and response.text *)
(* of the latter is its serialization.                                     *)
(***************************************************************************)
\* k in d
DictHas(d, k) == \E i \in 1..Len(d.keys) : d.keys[i] = k

\* d.get(k, default)
DictGet(d, k, default) ==
    IF DictHas(d, k)
    THEN d.values[CHOOSE i \in 1..Len(d.keys) : d.keys[i] = k]
    ELSE default

\* 'application/json' in content_type
IsJsonContentType(content_type) ==
    \E i \in 1..Len(content_type) : content_type[i] = "application/json"

\* response.text
ResponseText(body) == IF body.json THEN JsonDumps(body.data) ELSE body.text

\* CloudflareValueResponse(success=True, result=value, errors=[])
RawValueResponse(value) ==
    [raised |-> "none", success |-> BoolValue(TRUE), result |-> value, errors |-> <<>>]

\* [CloudflareError(code=err.get('code', 0), message=err.get('message', ''))
\*  for err in errors]: None is not iterable, a str has no get.
ParseErrors(errors) ==
    IF errors.type = "NoneType" THEN [raised |-> "TypeError"]
    ELSE IF \E i \in 1..Len(errors.items) : errors.items[i].type # "dict"
    THEN [raised |-> "AttributeError"]
    ELSE [raised |-> "none",
          errors |-> [i \in 1..Len(errors.items) |->
                        [code |-> DictGet(errors.items[i], "code", IntValue(0)),
                         message |-> DictGet(errors.items[i], "message", StrValue(<<>>))]]]

\* A parser that takes every dict for an envelope.
IsEnvelope_AnyDict(data) == data.type = "dict"

\* isinstance(data, dict) and 'success' in data
IsEnvelope(data) == data.type = "dict" /\ DictHas(data, "success")

\* CloudflareClient._parse_value_response
ParseValueResponse(data) ==
    IF IsEnvelope(data)
    THEN LET parsed == ParseErrors(DictGet(data, "errors", ListValue(<<>>)))
         IN  IF parsed.raised # "none"
             THEN [raised |-> parsed.raised]
             ELSE [raised |-> "none",
                   success |-> DictGet(data, "success", BoolValue(FALSE)),
                   result |-> DictGet(data, "result", NoneValue),
                   errors |-> parsed.errors]
    ELSE RawValueResponse(data)

\* A handler that parses every body, whatever the Content-Type says.
HandleResponse_IgnoresContentType(content_type, body) ==
    IF ~body.json
    THEN RawValueResponse(StrValue(ResponseText(body)))
    ELSE ParseValueResponse(body.data)

\* CloudflareClient._handle_response(response, self._parse_value_response) for
\* a response with response.ok.
HandleResponse(content_type, body) ==
    IF ~IsJsonContentType(content_type)
    THEN RawValueResponse(StrValue(ResponseText(body)))
    ELSE IF ~body.json
    THEN RawValueResponse(StrValue(ResponseText(body)))
    ELSE ParseValueResponse(body.data)

\* Content-Type headers: absent, and with and without a charset parameter.
ContentTypes ==
    {<<>>, <<"text/plain">>, <<"application/octet-stream">>,
     <<"application/json">>, <<"application/json", "; charset=utf-8">>}

\* Values of the errors field of a JSON object.
ErrorLists ==
    {ListValue(<<>>),
     ListValue(<<DictValue(<<"code", "message">>, <<IntValue(10009), StrValue(Text("m"))>>)>>),
     ListValue(<<DictValue(<<"code">>, <<IntValue(1)>>)>>),
     ListValue(<<StrValue(Text("x"))>>),
     NoneValue}

\* JSON objects with a success field, with and without result and errors.
SuccessObjects ==
    LET flags == {BoolValue(TRUE), BoolValue(FALSE), StrValue(Text("yes"))}
    IN  {DictValue(<<"success">>, <<f>>) : f \in flags}
        \cup {DictValue(<<"success", "result">>, <<f, StrValue(Text("r"))>>) : f \in flags}
        \cup {DictValue(<<"success", "errors">>, <<f, e>>) : f \in flags, e \in ErrorLists}
        \cup {DictValue(<<"result", "errors", "success">>, <<StrValue(Text("r")), e, f>>) :
                f \in flags, e \in ErrorLists}

\* Other JSON values.
OtherJsonValues ==
    {DictValue(<<>>, <<>>),
     DictValue(<<"a">>, <<IntValue(1)>>),
     DictValue(<<"errors">>, <<ListValue(<<StrValue(Text("x"))>>)>>),
     ListValue(<<IntValue(1), IntValue(2)>>),
     StrValue(Text("s")),
     IntValue(7),
     NoneValue}

\* Bodies of a 2xx response.
Bodies ==
    {[json |-> FALSE, text |-> t] : t \in {<<>>, Text("hello"), Text("{\"success\": ")}}
    \cup {[json |-> TRUE, data |-> d] : d \in SuccessObjects \cup OtherJsonValues}

\* The session returned a 2xx response; nothing has looked at it yet.
ResponseInit ==
    /\ cb = CircuitBreakerInit
    /\ now = 0
    /\ cbpc = "idle"
    /\ cbLast = "none"
    /\ consec = 0
    /\ hoSucc = 0
    /\ dyn = DynamoDBClientInit(DEFAULT_MAX_RETRIES)
    /\ BatchIdle
    /\ pc = "idle"
    /\ key = ""
    /\ config = NoConfig
    /\ remaining = 0
    /\ pool = EmptyPool
    /\ cf = NoClient
    /\ up = NoFetch
    /\ stats = NewStatistics
    /\ result = [kind |-> "none"]
    /\ obs = NoObs
    /\ tr = NoTransform
    /\ cp = NewConnectionPool
    /\ \E c \in ContentTypes : \E b \in Bodies :
        rsp = [handled |-> FALSE, content_type |-> c, body |-> b]
    /\ ov = NoOverlap
    /\ invocations = 0

\* _make_request of get_value hands the response to _handle_response.
HandleValueResponse ==
    /\ ~rsp.handled
    /\ rsp' = [rsp EXCEPT !.handled = TRUE] @@
              [returned |-> HandleResponse(rsp.content_type, rsp.body)]
    /\ UNCHANGED <<pc, key, config, remaining, pool, cf, up, stats, result, obs, tr,
                   cp, ov, invocations, cbVars, bwVars>>

ResponseNext == HandleValueResponse

SpecResponse == ResponseInit /\ [][ResponseNext]_vars

(***************************************************************************)
(* Properties of _handle_response                                          *)
(***************************************************************************)
\* The body is a JSON object that has a success field.
SuccessObjectBody == rsp.body.json /\ IsEnvelope(rsp.body.data)

\* The returned object carries the body's success, result and errors.
ReturnedEnvelope ==
    /\ rsp.returned.raised = "none"
    /\ rsp.returned.success = DictGet(rsp.body.data, "success", BoolValue(FALSE))
    /\ rsp.returned.result = DictGet(rsp.body.data, "result", NoneValue)
    /\ Len(rsp.returned.errors)
         = Len(DictGet(rsp.body.data, "errors", ListValue(<<>>)).items)

\* The returned object carries the body, as text or as parsed, as the value.
ReturnedRawValue ==
    /\ rsp.returned.raised = "none"
    /\ rsp.returned.success = BoolValue(TRUE)
    /\ rsp.returned.errors = <<>>
    /\ \/ rsp.returned.result = StrValue(ResponseText(rsp.body))
       \/ rsp.body.json /\ rsp.returned.result = rsp.body.data

\* The errors field of the body is absent or a list of objects.
ErrorsWellFormed ==
    LET errors == DictGet(rsp.body.data, "errors", ListValue(<<>>))
    IN  errors.type = "list" /\ \A i \in 1..Len(errors.items) : errors.items[i].type = "dict"

Invocations == {1, 2}

\* The configurations load_config hands to the invocations.
OverlapConfigs == {BaseConfig, [BaseConfig EXCEPT !.retry_max_attempts = 0]}

\* The pool method an invocation calls at each position, in program order.
MethodAt ==
    [s1 |-> "config_manager", s2 |-> "cloudflare_client",
     s3 |-> "data_transformer", s4 |-> "dynamodb_client"]

\* The position after each position.
AfterPosition ==
    [init |-> "s1", s1 |-> "s2", s2 |-> "s3", s3 |-> "s4", s4 |-> "s5",
     s5 |-> "s7", s7 |-> "fin", fin |-> "done"]

\* An invocation that has not started.
NewInvocation ==
    [pc |-> "init", at |-> "call", config |-> BaseConfig, pool |-> 0,
     held |-> [k \in PoolKinds |-> NoInstance], create |-> FALSE,
     fetched_on_closed |-> FALSE]

\* threading.Lock: acquire goes ahead when nobody holds the lock.
CanAcquire(lock) == lock = 0

\* What a get_* method is asked for by invocation t.
RequestOf(t, kind) ==
    CASE kind = "config_manager" -> NoCall
      [] kind = "data_transformer" -> t.config.cloudflare_credentials.kv_namespace_id
      [] OTHER -> t.config

\* The "if" at the head of a get_* method.
MustCreate(p, t, kind) ==
    CASE kind = "config_manager" -> p.config_manager = NoInstance
      [] kind = "cloudflare_client" ->
            p.cloudflare_client = NoInstance \/ PoolShouldRecreateCloudflareClient(p, t.config)
      [] kind = "dynamodb_client" ->
            p.dynamodb_client = NoInstance \/ PoolShouldRecreateDynamoDBClient(p, t.config)
      [] kind = "data_transformer" ->
            \/ p.data_transformer = NoInstance
            \/ p.data_transformer.namespace_id # RequestOf(t, kind)

\* The instance a get_* method constructs.
Constructed(p, t, kind) ==
    CASE kind = "config_manager" -> [id |-> p.built + 1]
      [] kind = "cloudflare_client" -> NewCloudflareClient(p.built + 1, t.config)
      [] kind = "dynamodb_client" -> NewDynamoDBClient(p.built + 1, t.config)
      [] kind = "data_transformer" ->
            NewDataTransformer(p.built + 1, RequestOf(t, kind))

OverlapInit ==
    /\ cb = CircuitBreakerInit
    /\ now = 0
    /\ cbpc = "idle"
    /\ cbLast = "none"
    /\ consec = 0
    /\ hoSucc = 0
    /\ dyn = DynamoDBClientInit(DEFAULT_MAX_RETRIES)
    /\ BatchIdle
    /\ pc = "idle"
    /\ key = ""
    /\ config = NoConfig
    /\ remaining = 0
    /\ pool = EmptyPool
    /\ cf = NoClient
    /\ up = NoFetch
    /\ stats = NewStatistics
    /\ result = [kind |-> "none"]
    /\ obs = NoObs
    /\ tr = NoTransform
    /\ cp = NewConnectionPool
    /\ rsp = NoResponse
    /\ ov = [started |-> TRUE, connection_pool |-> 0, pools_built |-> 0, lock |-> 0,
             pool |-> NewConnectionPool, th |-> [i \in Invocations |-> NewInvocation]]
    /\ invocations = 0

overlapFrame == <<pc, key, config, remaining, pool, cf, up, stats, result, obs, tr,
                  cp, rsp, invocations, cbVars, bwVars>>

\* initialize_lambda_optimizations: get_connection_pool, under _pool_lock.
OvGetConnectionPool(i) ==
    /\ ov.th[i].pc = "init"
    /\ LET made == ov.connection_pool = 0
           id == IF made THEN ov.pools_built + 1 ELSE ov.connection_pool
       IN  ov' = [ov EXCEPT !.connection_pool = id,
                            !.pools_built = IF made THEN @ + 1 ELSE @,
                            !.th[i].pool = id,
                            !.th[i].pc = AfterPosition["init"]]
    /\ UNCHANGED overlapFrame

\* "with self._lock:" of a get_* method or of cleanup.
OvAcquire(i) ==
    /\ ov.th[i].pc \in DOMAIN MethodAt \cup {"fin"}
    /\ ov.th[i].at = "call"
    /\ CanAcquire(ov.lock)
    /\ ov' = [ov EXCEPT !.lock = i, !.th[i].at = "locked"]
    /\ UNCHANGED overlapFrame

\* The "if" of a get_* method; at step 1 load_config has yet to run, and
\* the configuration it will return is drawn here.
OvCheck(i) ==
    /\ ov.th[i].pc \in DOMAIN MethodAt
    /\ ov.th[i].at = "locked"
    /\ ov' = [ov EXCEPT !.th[i].create = MustCreate(ov.pool, ov.th[i], MethodAt[ov.th[i].pc]),
                        !.th[i].at = "checked"]
    /\ UNCHANGED overlapFrame

\* The rest of a get_* method: construct if the "if" said so, count the use,
\* return the slot, release the lock.
OvReturn(i) ==
    /\ ov.th[i].pc \in DOMAIN MethodAt
    /\ ov.th[i].at = "checked"
    /\ LET t == ov.th[i]
           kind == MethodAt[t.pc]
           p == Served(ov.pool, kind, RequestOf(t, kind), t.create,
                       Constructed(ov.pool, t, kind))
       IN  \E cfg \in OverlapConfigs :
            ov' = [ov EXCEPT !.pool = p,
                             !.lock = 0,
                             !.th[i].held[kind] = p[kind],
                             !.th[i].config = IF t.pc = "s1" THEN cfg ELSE t.config,
                             !.th[i].at = "call",
                             !.th[i].pc = AfterPosition[t.pc]]
    /\ UNCHANGED overlapFrame

\* Step 5: get_value on the client the invocation holds.
OvFetch(i) ==
    /\ ov.th[i].pc = "s5"
    /\ ov' = [ov EXCEPT !.th[i].fetched_on_closed =
                            ov.th[i].held.cloudflare_client.id \in ov.pool.closed,
                        !.th[i].pc = AfterPosition["s5"]]
    /\ UNCHANGED overlapFrame

\* Steps 6 and 7.
OvStore(i) ==
    /\ ov.th[i].pc = "s7"
    /\ ov' = [ov EXCEPT !.th[i].pc = AfterPosition["s7"]]
    /\ UNCHANGED overlapFrame

\* A stage returns an error response or is skipped by the deadline check.
OvReturnEarly(i) ==
    /\ ov.th[i].pc \in {"s1", "s2", "s4", "s5", "s7"}
    /\ ov.th[i].at = "call"
    /\ ov' = [ov EXCEPT !.th[i].pc = "fin"]
    /\ UNCHANGED overlapFrame

\* "finally": the body of ConnectionPool.cleanup, and the release of the lock.
OvCleanup(i) ==
    /\ ov.th[i].pc = "fin"
    /\ ov.th[i].at = "locked"
    /\ \E close_raises \in BOOLEAN :
        ov' = [ov EXCEPT !.pool = CleanupOf(ov.pool, close_raises),
                         !.lock = 0,
                         !.th[i].at = "call",
                         !.th[i].pc = AfterPosition["fin"]]
    /\ UNCHANGED overlapFrame

OverlapNext ==
    \E i \in Invocations :
        \/ OvGetConnectionPool(i)
        \/ OvAcquire(i)
        \/ OvCheck(i)
        \/ OvReturn(i)
        \/ OvFetch(i)
        \/ OvStore(i)
        \/ OvReturnEarly(i)
        \/ OvCleanup(i)

SpecOverlap == OverlapInit /\ [][OverlapNext]_vars

(***************************************************************************)
(* Properties of overlapping invocations                                   *)
(***************************************************************************)
\* The step is the return of a get_* call of kind k.
OvGetStep(k) ==
    ov'.pool.usage_count = ov.pool.usage_count + 1 /\ ov'.pool.last.kind = k

\* C33: with two invocations overlapping, get calls for the same kind with
\* equal parameters and no cleanup in between return one and the same
\* instance, constructed once, and get_connection_pool gives every caller
\* the same pool.
C33_OverlappingGetsShareInstance ==
    /\ [][\A k \in PoolKinds :
            (/\ OvGetStep(k)
             /\ ov.pool.served[k] # NoCall
             /\ ov'.pool.last.request = ov.pool.served[k].request)
            => (/\ ov'.pool.last.returned = ov.pool.served[k].returned
                /\ ~ov'.pool.last.constructed)]_vars
    /\ [](\A i \in Invocations : \A j \in Invocations :
            (ov.th[i].pool # 0 /\ ov.th[j].pool # 0) => ov.th[i].pool = ov.th[j].pool)

\* C34: the cleanup of the invocation that finishes first never closes the
\* session of an upstream client the other invocation has obtained and has
\* yet to use for its fetch.
C34_CleanupSparesClientInUse ==
    \A i \in Invocations :
        ov.th[i].pc \in {"s3", "s4", "s5"} =>
            ov.th[i].held.cloudflare_client.id \notin ov.pool.closed

====
